---------------------------- MODULE Spec2Model ----------------------------
(***************************************************************************)
(* Workflow graph validator and executor of backend/services/              *)
(* workflow_service.py (class WorkflowService), with the router and chat   *)
(* callers of execute_workflow.                                            *)
(*                                                                         *)
(* A workflow is workflow_data = {nodes, edges}.  A node is                *)
(* [id, component_type, config]; config is modelled by the set of its keys *)
(* that hold a truthy value, so config.get(k) is truthy iff k \in config.  *)
(* Two keys are read for more than their truth: "selectedDocuments:ids" is  *)
(* a selectedDocuments list of bare document ids ([1]), a token            *)
(* "selectedDocuments:d" a list entry {'id': d}, and "temperature:text" a  *)
(* temperature that is not the text of a number.                           *)
(* An edge is [source, target].  Node ids are opaque: the node at position *)
(* i of the node list has id i, and id 0 is the id of no node.             *)
(***************************************************************************)
EXTENDS Integers, Sequences, FiniteSets, TLC

\* ------------------------------------------------------------------ bounds
MaxNodes == 3
MaxEdges == 2

\* The workflows validate_workflow accepts are few: they are taken one node
\* and one edge larger.
MaxAcceptedNodes == MaxNodes + 1
MaxAcceptedEdges == MaxEdges + 1

\* The direct calls of one handler in a row.
MaxCalls == 2

\* -------------------------------------------------------- graph inputs
\* The (component_type, config) pairs nodes are drawn from.  "llm_engine" is
\* one of the three type names _validate_component_config tests for; it is
\* not a type the dispatcher knows.
Kinds ==
  << [component_type |-> "userQuery",     config |-> {}],
     [component_type |-> "outputN",       config |-> {}],
     [component_type |-> "llm",           config |-> {"model", "apiKey"}],
     [component_type |-> "llm",           config |-> {"webSearchEnabled"}],
     [component_type |-> "knowledgeBase", config |-> {"apiKey"}],
     [component_type |-> "webSearch",     config |-> {"apiKey"}],
     [component_type |-> "llm_engine",    config |-> {}],
     [component_type |-> "knowledgeBase", config |-> {"apiKey", "selectedDocuments:ids"}],
     [component_type |-> "llm",           config |-> {"model", "apiKey", "temperature:text"}] >>

NodeOfKind(i, k) ==
  [id |-> i, component_type |-> Kinds[k].component_type, config |-> Kinds[k].config]

\* Node lists of at most MaxNodes nodes.  Ids are opaque and the code reads
\* the list order only to take the first userQuery node and the first node
\* whose configuration fails, so lists are enumerated up to the order of
\* nodes of different kinds (kinds non-decreasing along the list).
NodeListsUpTo(max) ==
  UNION { { [i \in 1..n |-> NodeOfKind(i, f[i])] :
              f \in { g \in [1..n -> 1..Len(Kinds)] :
                        \A i \in 1..n, j \in 1..n : i < j => g[i] <= g[j] } } :
          n \in 0..max }

NodeLists == NodeListsUpTo(MaxNodes)

\* Edge lists of at most MaxEdges edges between the ids of the nodes and the
\* id of no node, duplicates and self-loops included.  The code reads the
\* order of the edge list only as the order of the edges that leave one
\* source, so lists are enumerated up to the order of edges of different
\* sources (sources non-decreasing along the list, targets in any order).
EdgeListsUpTo(n, max) ==
  UNION { { es \in [1..m -> [source : 0..n, target : 0..n]] :
              \A i \in 1..m, j \in 1..m : i < j => es[i].source <= es[j].source } :
          m \in 0..max }

EdgeLists(n) == EdgeListsUpTo(n, MaxEdges)

\* ------------------------------------------------------ validate_workflow
NodeIds(ns) == { ns[i].id : i \in 1..Len(ns) }

ComponentTypes(ns) == { ns[i].component_type : i \in 1..Len(ns) }

\* Mutation of TargetsOf: the targets in reverse edge order.
TargetsOf_mutant(es, source) ==
  LET leaving == SelectSeq(es, LAMBDA e : e.source = source)
  IN  [k \in 1..Len(leaving) |-> leaving[Len(leaving) + 1 - k].target]

RECURSIVE TargetsOf(_, _)
\* graph[source] after the edge loop: the targets of the edges leaving
\* `source`, in edge order.
TargetsOf(es, source) ==
  IF es = << >> THEN << >>
  ELSE IF Head(es).source = source
       THEN << Head(es).target >> \o TargetsOf(Tail(es), source)
       ELSE TargetsOf(Tail(es), source)

\* Mutation of BuildRaises: a builder that tolerates unknown sources.
BuildRaises_mutant(ns, es) == FALSE

\* graph[edge['source']].append(...) raises KeyError on a source that is not
\* a key of graph.
BuildRaises(ns, es) == \E i \in 1..Len(es) : es[i].source \notin NodeIds(ns)

FirstBadSource(es, ids) ==
  es[CHOOSE i \in 1..Len(es) :
       /\ es[i].source \notin ids
       /\ \A j \in 1..(i - 1) : es[j].source \in ids].source

\* Mutation of build_execution_graph: an edge from a node to itself is left
\* out of the map.
build_execution_graph_mutant(ns, es) ==
  [i \in NodeIds(ns) |-> TargetsOf(SelectSeq(es, LAMBDA e : e.source # e.target), i)]

\* The adjacency map both _has_cycles and _build_execution_graph build.
build_execution_graph(ns, es) == [i \in NodeIds(ns) |-> TargetsOf(es, i)]

\* graph.get(node, [])
GraphGet(graph, node) == IF node \in DOMAIN graph THEN graph[node] ELSE << >>

RECURSIVE dfs(_, _, _)
RECURSIVE dfs_loop(_, _, _, _)
\* dfs(node) of _has_cycles; st = [found, visited, rec_stack].
dfs(graph, node, st) ==
  LET st1 == [st EXCEPT !.visited = @ \cup {node}, !.rec_stack = @ \cup {node}]
      st2 == dfs_loop(graph, GraphGet(graph, node), 1, st1)
  IN  IF st2.found THEN st2
      ELSE [st2 EXCEPT !.rec_stack = @ \ {node}]

dfs_loop(graph, neighbors, i, st) ==
  IF i > Len(neighbors) THEN st
  ELSE LET neighbor == neighbors[i] IN
       IF neighbor \notin st.visited
       THEN LET r == dfs(graph, neighbor, st) IN
            IF r.found THEN r ELSE dfs_loop(graph, neighbors, i + 1, r)
       ELSE IF neighbor \in st.rec_stack
            THEN [st EXCEPT !.found = TRUE]
            ELSE dfs_loop(graph, neighbors, i + 1, st)

RECURSIVE has_cycles_from(_, _, _, _)
\* for node_id in graph: if node_id not in visited: if dfs(node_id): ...
has_cycles_from(graph, ns, i, st) ==
  IF i > Len(ns) THEN FALSE
  ELSE IF ns[i].id \notin st.visited
       THEN LET r == dfs(graph, ns[i].id, st) IN
            IF r.found THEN TRUE ELSE has_cycles_from(graph, ns, i + 1, r)
       ELSE has_cycles_from(graph, ns, i + 1, st)

\* Mutation of has_cycles: the search starts from the first node only.
has_cycles_mutant(ns, es) ==
  ns # << >> /\ dfs(build_execution_graph(ns, es), ns[1].id,
                    [found |-> FALSE, visited |-> {}, rec_stack |-> {}]).found

\* _has_cycles; called by validate_workflow once every edge source is a node.
has_cycles(ns, es) ==
  has_cycles_from(build_execution_graph(ns, es), ns, 1,
                  [found |-> FALSE, visited |-> {}, rec_stack |-> {}])

\* _validate_component_config: the error it raises for `node`, "" if none.
validate_component_config(node) ==
  LET component_type == node.component_type
      config == node.config
  IN  IF component_type = "llm_engine"
      THEN IF "model" \notin config
           THEN "LLM Engine component missing model configuration"
           ELSE IF "apiKey" \notin config
                THEN "LLM Engine component missing apiKey"
                ELSE ""
      ELSE IF component_type = "knowledge_base"
      THEN IF "apiKey" \notin config
           THEN "Knowledge Base component missing apiKey"
           ELSE ""
      ELSE IF component_type = "web_search"
      THEN IF "apiKey" \notin config
           THEN "Web Search component missing apiKey"
           ELSE ""
      ELSE ""

Failure(error, node, cycle_checked) ==
  [valid |-> FALSE, error |-> error, node |-> node, cycle_checked |-> cycle_checked]

\* Mutation of required_components: the llm test is left out.
required_components_mutant(ns) ==
  IF "userQuery" \notin ComponentTypes(ns)
  THEN "Workflow must have a User Query component"
  ELSE IF "outputN" \notin ComponentTypes(ns)
  THEN "Workflow must have an Output component"
  ELSE ""

\* validate_workflow, lines 79-89: the error of the required-component
\* checks, "" if all three types are present.
required_components(ns) ==
  IF "userQuery" \notin ComponentTypes(ns)
  THEN "Workflow must have a User Query component"
  ELSE IF "outputN" \notin ComponentTypes(ns)
  THEN "Workflow must have an Output component"
  ELSE IF "llm" \notin ComponentTypes(ns)
  THEN "Workflow must have an LLM Engine component"
  ELSE ""

\* Mutation of invalid_edge: only the source of an edge is tested.
invalid_edge_mutant(ns, es) ==
  \E i \in 1..Len(es) : es[i].source \notin NodeIds(ns)

\* validate_workflow, lines 92-95: whether some edge is refused.
invalid_edge(ns, es) ==
  \E i \in 1..Len(es) :
    es[i].source \notin NodeIds(ns) \/ es[i].target \notin NodeIds(ns)

\* Mutation of validate_workflow: the edges are tested before the required
\* components.
validate_workflow_mutant(ns, es) ==
  IF ns = << >>
  THEN Failure("Workflow must have at least one node", 0, FALSE)
  ELSE IF invalid_edge(ns, es)
  THEN Failure("Invalid edge connection", 0, FALSE)
  ELSE IF required_components(ns) # ""
  THEN Failure(required_components(ns), 0, FALSE)
  ELSE IF has_cycles(ns, es)
  THEN Failure("Workflow contains cycles", 0, TRUE)
  ELSE IF \E i \in 1..Len(ns) : validate_component_config(ns[i]) # ""
  THEN LET i == CHOOSE i \in 1..Len(ns) :
                  /\ validate_component_config(ns[i]) # ""
                  /\ \A j \in 1..(i - 1) : validate_component_config(ns[j]) = ""
       IN  Failure(validate_component_config(ns[i]), ns[i].id, TRUE)
  ELSE [valid |-> TRUE, error |-> "", node |-> 0, cycle_checked |-> TRUE]

\* validate_workflow: [valid, error, node, cycle_checked].  error is the
\* message of the ValueError raised ("" on success; the messages that embed
\* the edge or the node are cut to their fixed part), node the node a
\* configuration error names, cycle_checked whether _has_cycles was called.
validate_workflow(ns, es) ==
  IF ns = << >>
  THEN Failure("Workflow must have at least one node", 0, FALSE)
  ELSE IF required_components(ns) # ""
  THEN Failure(required_components(ns), 0, FALSE)
  ELSE IF invalid_edge(ns, es)
  THEN Failure("Invalid edge connection", 0, FALSE)
  ELSE IF has_cycles(ns, es)
  THEN Failure("Workflow contains cycles", 0, TRUE)
  ELSE IF \E i \in 1..Len(ns) : validate_component_config(ns[i]) # ""
  THEN LET i == CHOOSE i \in 1..Len(ns) :
                  /\ validate_component_config(ns[i]) # ""
                  /\ \A j \in 1..(i - 1) : validate_component_config(ns[j]) = ""
       IN  Failure(validate_component_config(ns[i]), ns[i].id, TRUE)
  ELSE [valid |-> TRUE, error |-> "", node |-> 0, cycle_checked |-> TRUE]

\* ------------------------------------------------------------ dictionaries
\* Python's None, where a string may stand.
None == "<None>"

\* Mutation of Update: the dict is replaced by r.
Update_mutant(ctx, r) == r

\* dict.update: the keys of r are added to ctx or overwritten in it.
Update(ctx, r) ==
  [k \in (DOMAIN ctx) \cup (DOMAIN r) |-> IF k \in DOMAIN r THEN r[k] ELSE ctx[k]]

\* dict.get(k, default)
Get(d, k, default) == IF k \in DOMAIN d THEN d[k] ELSE default

\* Truthiness of a string or None.
Truthy(s) == s # None /\ s # ""

\* str.strip() == "": the model's strings are "", " " and non-blank texts.
Blank(s) == s = "" \/ s = " "

\* ------------------------------------------------------- external outcomes
\* What the language-model capability may answer: a text, or a failure.
LLMTexts == {"", " ", "t1", "t2"}
LLMOutcomes == [kind : {"text"}, text : LLMTexts] \cup {[kind |-> "raise", text |-> ""]}

\* What a web search may answer: no result, one result, two, or a failure.
SearchOutcomes == {"empty", "one", "two", "raise"}

\* What the search of _execute_llm_engine may answer.  The lines it appends
\* to the prompt are kept as a sequence, so one result shows the appending.
EmbeddedSearchOutcomes == SearchOutcomes \ {"two"}

\* What the similarity search may answer: no chunk, one chunk, or a failure.
RetrievalOutcomes == {"empty", "one", "raise"}

Apology == "I apologize, but I couldn't generate a response. Please try again."
NoResponse == "No response was generated. Please try again."
LLMErrorText == "Error generating response: ModelError"
RetrievalErrorText == "EmbeddingError"

WebResult == [title |-> "title", snippet |-> "snippet"]
WebLine == "- title: snippet"
WebLines == "- title: snippet\n- title: snippet"
Chunk == [document_id |-> 1, document_name |-> "doc", similarity_score |-> 9,
          chunk_text |-> "chunk"]
ChunkBlock == "Document: doc\nContent: chunk"

\* ---------------------------------------------------------- document store
\* The documents a selectedDocuments list may name, in list order.  Documents
\* are interchangeable, so a list that names them in the other order is this
\* list over the store with the two documents exchanged.
DocIds == << "doc1", "doc2" >>

DocIdSet == { DocIds[i] : i \in 1..Len(DocIds) }

\* Document.extracted_text, by what the code reads of it: None or '', only
\* whitespace, fewer than 10 characters once stripped, and longer.
Texts == {"none", "blank", "short", "long"}

\* No row of Document with that id.
AbsentDocument == [present |-> FALSE, text |-> "none", embeddings |-> 0]

\* A row of Document, with the count of its DocumentEmbedding rows.
DocumentStates ==
  {AbsentDocument} \cup [present : {TRUE}, text : Texts, embeddings : 0..1]

Stores == [DocIdSet -> DocumentStates]

NoDocuments == [d \in DocIdSet |-> AbsentDocument]

\* EmbeddingService.validate_document_for_embeddings
validate_document_for_embeddings(docs, document_id) ==
  LET document == docs[document_id] IN
  IF ~document.present
  THEN [valid |-> FALSE, reason |-> "Document not found"]
  ELSE IF document.text = "none"
  THEN [valid |-> FALSE, reason |-> "Document has no extracted text"]
  ELSE IF document.text \in {"blank", "short"}
  THEN [valid |-> FALSE, reason |-> "Document text too short"]
  ELSE [valid |-> TRUE, existing_embeddings |-> document.embeddings]

\* An exception: its message, and the value the message embeds.
Err(msg, arg) == [msg |-> msg, arg |-> arg]

NoError == Err("", "")

\* EmbeddingService.generate_document_embeddings for one document, given the
\* outcome of the embeddings API: [error, documents].  The existing rows are
\* deleted before the text is split and the API called.
generate_document_embeddings(docs, document_id, api) ==
  LET document == docs[document_id]
      deleted == [docs EXCEPT ![document_id].embeddings = 0]
  IN  IF ~document.present
      THEN [error |-> Err("Document not found", document_id), documents |-> docs]
      ELSE IF document.text = "none"
      THEN [error |-> Err("Document has no extracted text", document_id),
            documents |-> docs]
      ELSE IF document.text = "blank"
      THEN [error |-> Err("No text chunks generated from document", ""),
            documents |-> deleted]
      ELSE IF api = "raise"
      THEN [error |-> Err("EmbeddingError", ""), documents |-> deleted]
      ELSE [error |-> NoError,
            documents |-> [docs EXCEPT ![document_id].embeddings = 1]]

\* 'selectedDocuments:d'
SelectionToken(d) ==
  IF d = "doc1" THEN "selectedDocuments:doc1" ELSE "selectedDocuments:doc2"

\* [doc['id'] for doc in config.get("selectedDocuments", [])] of a list of
\* mappings.
document_ids(config) == SelectSeq(DocIds, LAMBDA d : SelectionToken(d) \in config)

\* The first loop of _execute_knowledge_base, lines 292-299: the documents
\* whose check is not valid or counts no embedding.
missing_embeddings(docs, ids) ==
  SelectSeq(ids, LAMBDA d :
    LET checked == validate_document_for_embeddings(docs, d) IN
    ~checked.valid \/ Get(checked, "existing_embeddings", 0) = 0)

RECURSIVE generate_missing(_, _, _, _)
\* The second loop of _execute_knowledge_base, lines 302-309, from the i-th
\* missing document on: [error, documents, generated], generated the
\* documents generate_document_embeddings was called for.
generate_missing(docs, missing, i, generation) ==
  IF i > Len(missing)
  THEN [error |-> NoError, documents |-> docs, generated |-> << >>]
  ELSE LET g == generate_document_embeddings(docs, missing[i], generation[missing[i]])
       IN  IF g.error # NoError
           THEN [error |-> g.error, documents |-> g.documents,
                 generated |-> << missing[i] >>]
           ELSE LET rest == generate_missing(g.documents, missing, i + 1, generation)
                IN  [rest EXCEPT !.generated = << missing[i] >> \o @]

\* ---------------------------------------------------------------- handlers
\* Line 282 of _execute_knowledge_base, before the try: doc['id'] of a list
\* entry that is a bare id raises TypeError.
knowledge_base_raises(config) == "selectedDocuments:ids" \in config

\* Mutation of execute_knowledge_base: the except branch leaves out the error.
execute_knowledge_base_mutant(config, context, docs, generation, retrieval) ==
  LET ids == document_ids(config)
      g == generate_missing(docs, missing_embeddings(docs, ids), 1, generation)
  IN  [documents |-> g.documents,
       generated |-> g.generated,
       result |-> IF g.error = NoError /\ retrieval = "one"
                  THEN [knowledge_context |-> ChunkBlock, sources |-> << Chunk >>]
                  ELSE [knowledge_context |-> "", sources |-> << >>]]

\* _execute_knowledge_base from line 287 on: [result, documents, generated].
\* The except branch answers every failure of the checks, of the generation
\* and of the similarity search.
execute_knowledge_base(config, context, docs, generation, retrieval) ==
  LET ids == document_ids(config)
      g == generate_missing(docs, missing_embeddings(docs, ids), 1, generation)
      soft(e) == [knowledge_context |-> "", sources |-> << >>, error |-> e]
  IN  [documents |-> g.documents,
       generated |-> g.generated,
       result |-> IF g.error # NoError THEN soft(g.error.msg)
                  ELSE IF retrieval = "raise" THEN soft(RetrievalErrorText)
                  ELSE IF retrieval = "one"
                  THEN [knowledge_context |-> ChunkBlock, sources |-> << Chunk >>]
                  ELSE [knowledge_context |-> "", sources |-> << >>]]

\* Mutation of llm_prompts: the web_context a webSearch node left in the
\* context is added to the prompt.
llm_prompts_mutant(config, context, search) ==
  LET user_query == Get(context, "user_query", "")
      knowledge_context == Get(context, "knowledge_context", "")
      use_web_search == "webSearchEnabled" \in config
  IN  [system_prompt |-> IF "prompt" \in config THEN "custom"
                         ELSE "You are a helpful AI assistant.",
       context_prefix |-> knowledge_context # "",
       knowledge_context |-> knowledge_context,
       question |-> user_query,
       web_lines |-> IF Get(context, "web_context", "") # ""
                     THEN << Get(context, "web_context", "") >>
                     ELSE IF use_web_search /\ search = "one" THEN << WebLine >>
                     ELSE IF use_web_search /\ search = "two" THEN << WebLine, WebLine >>
                     ELSE << >>]

\* The prompts _execute_llm_engine hands to generate_response.  The user
\* prompt is kept in its parts: whether it starts with "Context:", the
\* knowledge context and question it embeds, the web lines appended.
llm_prompts(config, context, search) ==
  LET user_query == Get(context, "user_query", "")
      knowledge_context == Get(context, "knowledge_context", "")
      use_web_search == "webSearchEnabled" \in config
  IN  [system_prompt |-> IF "prompt" \in config THEN "custom"
                         ELSE "You are a helpful AI assistant.",
       context_prefix |-> knowledge_context # "",
       knowledge_context |-> knowledge_context,
       question |-> user_query,
       web_lines |-> IF use_web_search /\ search = "one" THEN << WebLine >>
                     ELSE IF use_web_search /\ search = "two" THEN << WebLine, WebLine >>
                     ELSE << >>]

\* Mutation of execute_llm_engine: the except branch answers the apology.
execute_llm_engine_mutant(config, context, llm) ==
  [llm_response |-> IF llm.kind = "raise" \/ Blank(llm.text) THEN Apology ELSE llm.text,
   model_used |-> IF "model" \in config THEN "model" ELSE "",
   web_search_used |-> "webSearchEnabled" \in config]

\* Mutation of execute_llm_engine: the test of line 395 is inverted, so the
\* apology replaces a text that is not blank.
execute_llm_engine_inverted_mutant(config, context, llm) ==
  [llm_response |-> IF llm.kind = "raise" THEN LLMErrorText
                    ELSE IF ~Blank(llm.text) THEN Apology
                    ELSE llm.text,
   model_used |-> IF "model" \in config THEN "model" ELSE "",
   web_search_used |-> "webSearchEnabled" \in config]

\* Line 351 of _execute_llm_engine, before any try: float() of a temperature
\* that is not the text of a number raises ValueError.
llm_engine_raises(config) == "temperature:text" \in config

\* _execute_llm_engine: the contributions, given the capability's outcome.
execute_llm_engine(config, context, llm) ==
  LET model == IF "model" \in config THEN "model" ELSE ""
      use_web_search == "webSearchEnabled" \in config
  IN  [llm_response |-> IF llm.kind = "raise" THEN LLMErrorText
                        ELSE IF Blank(llm.text) THEN Apology
                        ELSE llm.text,
       model_used |-> model,
       web_search_used |-> use_web_search]

\* Mutation of execute_web_search: only the first result makes a line.
execute_web_search_mutant(config, context, search) ==
  IF search = "one"
  THEN [web_context |-> WebLine, web_results |-> << WebResult >>]
  ELSE IF search = "two"
  THEN [web_context |-> WebLine, web_results |-> << WebResult, WebResult >>]
  ELSE [web_context |-> "", web_results |-> << >>]

\* _execute_web_search
execute_web_search(config, context, search) ==
  IF search = "raise" THEN [web_context |-> "", web_results |-> << >>]
  ELSE IF search = "one"
  THEN [web_context |-> WebLine, web_results |-> << WebResult >>]
  ELSE IF search = "two"
  THEN [web_context |-> WebLines, web_results |-> << WebResult, WebResult >>]
  ELSE [web_context |-> "", web_results |-> << >>]

\* Mutation of execute_output: the response is not stripped before the test.
execute_output_mutant(config, context) ==
  [response |-> IF ~Truthy(Get(context, "llm_response", ""))
                THEN NoResponse ELSE Get(context, "llm_response", ""),
   sources |-> Get(context, "sources", << >>),
   metadata |-> [model_used |-> Get(context, "model_used", None),
                 web_search_used |-> Get(context, "web_search_used", FALSE)]]

\* _execute_output
execute_output(config, context) ==
  LET llm_response == Get(context, "llm_response", "")
      sources == Get(context, "sources", << >>)
  IN  [response |-> IF ~Truthy(llm_response) \/ Blank(llm_response)
                    THEN NoResponse ELSE llm_response,
       sources |-> sources,
       metadata |-> [model_used |-> Get(context, "model_used", None),
                     web_search_used |-> Get(context, "web_search_used", FALSE)]]

\* Mutation of KnownTypes: the dispatcher takes llm_engine for a type it
\* has a handler for.
KnownTypes_mutant ==
  {"userQuery", "knowledgeBase", "llm", "webSearch", "outputN", "llm_engine"}

KnownTypes == {"userQuery", "knowledgeBase", "llm", "webSearch", "outputN"}

\* Whether the handler of `node` raises before it calls any capability.
HandlerRaises(node) ==
  \/ node.component_type = "knowledgeBase" /\ knowledge_base_raises(node.config)
  \/ node.component_type = "llm" /\ llm_engine_raises(node.config)

\* The exception of a handler that raises.
HandlerError(node) ==
  IF node.component_type = "knowledgeBase"
  THEN Err("TypeError", "selectedDocuments")
  ELSE Err("ValueError", "temperature")

\* The external outcomes a dispatch of `node` draws: [llm, search, retrieval,
\* generation], generation the outcome of the embeddings API for each
\* document.  A capability the node does not call has the one outcome
\* "unused".
Unused == "unused"
NoLLM == [kind |-> "unused", text |-> ""]
OutcomesFor(node) ==
  LET t == node.component_type
      calls == ~HandlerRaises(node)
  IN
  [llm : IF t = "llm" /\ calls THEN LLMOutcomes ELSE {NoLLM},
   search : IF calls /\ t = "webSearch" THEN SearchOutcomes
            ELSE IF calls /\ t = "llm" /\ "webSearchEnabled" \in node.config
            THEN EmbeddedSearchOutcomes
            ELSE {Unused},
   retrieval : IF t = "knowledgeBase" /\ calls THEN RetrievalOutcomes ELSE {Unused},
   generation : { f \in [DocIdSet -> {"ok", "raise", Unused}] :
                    \A d \in DocIdSet :
                      f[d] = Unused <=>
                        ~(t = "knowledgeBase" /\ calls /\ SelectionToken(d) \in node.config) }]

\* Mutation of HandlerResult: the llm handler puts the query it searched
\* the web with back into the context, under the key of the seed.
HandlerResult_mutant(node, context, docs, o) ==
  LET t == node.component_type IN
  IF t = "userQuery" THEN [query |-> context["user_query"]]
  ELSE IF t = "knowledgeBase"
  THEN execute_knowledge_base(node.config, context, docs, o.generation, o.retrieval).result
  ELSE IF t = "llm"
  THEN [user_query |-> "hello (web)"] @@ execute_llm_engine(node.config, context, o.llm)
  ELSE IF t = "webSearch" THEN execute_web_search(node.config, context, o.search)
  ELSE execute_output(node.config, context)

\* The dispatch of _execute_node (lines 244-263): the result of a handler
\* that does not raise.
HandlerResult(node, context, docs, o) ==
  LET t == node.component_type IN
  IF t = "userQuery" THEN [query |-> context["user_query"]]
  ELSE IF t = "knowledgeBase"
  THEN execute_knowledge_base(node.config, context, docs, o.generation, o.retrieval).result
  ELSE IF t = "llm" THEN execute_llm_engine(node.config, context, o.llm)
  ELSE IF t = "webSearch" THEN execute_web_search(node.config, context, o.search)
  ELSE execute_output(node.config, context)

\* The document store after the handler of `node`, whether or not it raises.
HandlerDocuments(node, context, docs, o) ==
  IF node.component_type = "knowledgeBase" /\ ~HandlerRaises(node)
  THEN execute_knowledge_base(node.config, context, docs, o.generation, o.retrieval).documents
  ELSE docs

\* The documents the handler of `node` called generate_document_embeddings
\* for, in call order.
HandlerGenerated(node, context, docs, o) ==
  IF node.component_type = "knowledgeBase" /\ ~HandlerRaises(node)
  THEN execute_knowledge_base(node.config, context, docs, o.generation, o.retrieval).generated
  ELSE << >>

\* The recursion limit of the interpreter, modelled by the smallest depth
\* that no traversal of an acyclic graph of MaxNodes nodes reaches.
RecursionLimit == MaxNodes + 1

\* next((n for n in all_nodes if n['id'] == next_node_id), None): its index
\* in the node list, 0 for None.
FindNode(ns, id) ==
  IF \E i \in 1..Len(ns) : ns[i].id = id
  THEN CHOOSE i \in 1..Len(ns) : ns[i].id = id /\ \A j \in 1..(i - 1) : ns[j].id # id
  ELSE 0

\* The first userQuery node of the node list, 0 if there is none.
FindStart(ns) ==
  IF \E i \in 1..Len(ns) : ns[i].component_type = "userQuery"
  THEN CHOOSE i \in 1..Len(ns) :
         /\ ns[i].component_type = "userQuery"
         /\ \A j \in 1..(i - 1) : ns[j].component_type # "userQuery"
  ELSE 0

\* ------------------------------------------------------------------ state
VARIABLES
  workflow_exists, \* whether get_workflow(workflow_id) finds a workflow
  nodes,       \* workflow.workflow_data['nodes']
  edges,       \* workflow.workflow_data['edges']
  user_query,  \* the query of the execute call
  pc,          \* where the caller is
  validation,  \* what POST /{workflow_id}/validate answered
  execution,   \* the WorkflowExecution row: [status, result, logs, commits]
  graph,       \* execution_graph of _execute_workflow_logic
  context,     \* the context dict of the traversal
  stack,       \* the _execute_node calls in progress: [node, next, result]
  error,       \* the exception in flight, or the one that left execute_workflow
  dispatched,  \* the dispatches so far, in order: [node, result, outcome]
  llm_calls,   \* the calls of generate_response, in order: [prompts, outcome]
  documents,   \* the Document rows, with their DocumentEmbedding rows counted
  handler_calls, \* the direct calls of one handler, in order
  other,       \* the locals of a second execute_workflow call, while it waits
  chat,        \* process_message: [session, status, messages, response]
  kb_calls     \* two _execute_knowledge_base calls, step by step

vars == << workflow_exists, nodes, edges, user_query, pc, validation, execution,
           graph, context, stack, error, dispatched, llm_calls, documents,
           handler_calls, other, chat, kb_calls >>

NotValidated == [valid |-> FALSE, error |-> "not validated", node |-> 0,
                 cycle_checked |-> FALSE]

\* No WorkflowExecution row.  result and logs are << >> for None and a
\* one-element sequence otherwise; commits counts the commits of the row.
NoExecution == [status |-> "none", result |-> << >>, logs |-> << >>, commits |-> 0]

Queries == {"hello"}

\* No second call.
NoFrame == [user_query |-> "", pc |-> "none", execution |-> NoExecution,
            graph |-> << >>, context |-> << >>, stack |-> << >>, error |-> NoError,
            dispatched |-> << >>, llm_calls |-> << >>]

\* No process_message call.
NoChat == [session |-> FALSE, status |-> "none", messages |-> << >>,
           response |-> << >>]

Init ==
  /\ workflow_exists \in BOOLEAN
  /\ nodes \in NodeLists
  /\ edges \in EdgeLists(Len(nodes))
  /\ workflow_exists = FALSE => nodes = << >> /\ edges = << >>
  /\ user_query \in Queries
  /\ pc = "idle"
  /\ validation = NotValidated
  /\ execution = NoExecution
  /\ graph = << >>
  /\ context = << >>
  /\ stack = << >>
  /\ error = NoError
  /\ dispatched = << >>
  /\ llm_calls = << >>
  /\ documents = NoDocuments
  /\ handler_calls = << >>
  /\ other = NoFrame
  /\ chat = NoChat
  /\ kb_calls = << >>

exec_vars == << execution, graph, context, stack, error, dispatched, llm_calls,
               documents, handler_calls >>

\* What no action of execute_workflow or of a handler touches.
caller_vars == << other, chat, kb_calls >>

\* POST /{workflow_id}/validate
Validate ==
  /\ pc = "idle"
  /\ IF workflow_exists
     THEN /\ validation' = validate_workflow(nodes, edges)
          /\ pc' = "validated"
     ELSE /\ validation' = validation
          /\ pc' = "not_found"
  /\ UNCHANGED caller_vars
  /\ UNCHANGED << workflow_exists, nodes, edges, user_query >>
  /\ UNCHANGED exec_vars

\* Mutation of ExecuteStart: the row keeps the column default, pending.
ExecuteStart_mutant ==
  /\ pc = "idle"
  /\ IF workflow_exists
     THEN /\ execution' = [status |-> "pending", result |-> << >>, logs |-> << >>,
                           commits |-> 1]
          /\ pc' = "running"
          /\ error' = error
     ELSE /\ error' = Err("Workflow not found", "")
          /\ pc' = "raised"
          /\ execution' = execution
  /\ UNCHANGED caller_vars
  /\ UNCHANGED << workflow_exists, nodes, edges, user_query, validation,
                  graph, context, stack, dispatched, llm_calls, documents,
                  handler_calls >>

\* execute_workflow, lines 166-178: the lookup, and the row created running.
ExecuteStart ==
  /\ pc = "idle"
  /\ IF workflow_exists
     THEN /\ execution' = [status |-> "running", result |-> << >>, logs |-> << >>,
                           commits |-> 1]
          /\ pc' = "running"
          /\ error' = error
     ELSE /\ error' = Err("Workflow not found", "")
          /\ pc' = "raised"
          /\ execution' = execution
  /\ UNCHANGED caller_vars
  /\ UNCHANGED << workflow_exists, nodes, edges, user_query, validation,
                  graph, context, stack, dispatched, llm_calls, documents,
                  handler_calls >>

\* The prompts a dispatch of `node` hands to generate_response.
CallsOf(node, ctx, o) ==
  IF node.component_type = "llm"
  THEN << [prompts |-> llm_prompts(node.config, ctx, o.search), outcome |-> o.llm] >>
  ELSE << >>

\* _execute_node up to context.update(result), lines 244-266, for the node at
\* index n called at depth Len(stack) + 1: the call raises, or the result is
\* merged and the call's frame is pushed.
Dispatch(n, ctx, o) ==
  LET node == nodes[n] IN
  IF Len(stack) + 1 > RecursionLimit
  THEN /\ error' = Err("maximum recursion depth exceeded", "")
       /\ pc' = "except"
       /\ UNCHANGED << context, stack, dispatched, llm_calls, documents >>
  ELSE IF node.component_type \notin KnownTypes
  THEN /\ error' = Err("Unknown component type", node.component_type)
       /\ pc' = "except"
       /\ context' = ctx
       /\ UNCHANGED << stack, dispatched, llm_calls, documents >>
  ELSE IF HandlerRaises(node)
  THEN /\ error' = HandlerError(node)
       /\ pc' = "except"
       /\ context' = ctx
       /\ UNCHANGED << stack, dispatched, llm_calls, documents >>
  ELSE LET result == HandlerResult(node, ctx, documents, o) IN
       /\ context' = Update(ctx, result)
       /\ documents' = HandlerDocuments(node, ctx, documents, o)
       /\ stack' = Append(stack, [node |-> n, next |-> 1, result |-> result])
       /\ dispatched' = Append(dispatched, [node |-> node.id, result |-> result,
                                            outcome |-> o])
       /\ llm_calls' = llm_calls \o CallsOf(node, ctx, o)
       /\ pc' = "traversing"
       /\ error' = error

\* _execute_workflow_logic, lines 199-217: the graph is built, the start node
\* found, the context seeded and the start node dispatched.
ExecuteLogic ==
  /\ pc = "running"
  /\ IF BuildRaises(nodes, edges)
     THEN /\ error' = Err("KeyError", ToString(FirstBadSource(edges, NodeIds(nodes))))
          /\ pc' = "except"
          /\ UNCHANGED << graph, context, stack, dispatched, llm_calls, documents >>
     ELSE IF FindStart(nodes) = 0
     THEN /\ error' = Err("No user query component found", "")
          /\ pc' = "except"
          /\ graph' = build_execution_graph(nodes, edges)
          /\ UNCHANGED << context, stack, dispatched, llm_calls, documents >>
     ELSE /\ graph' = build_execution_graph(nodes, edges)
          /\ \E o \in OutcomesFor(nodes[FindStart(nodes)]) :
               Dispatch(FindStart(nodes), [user_query |-> user_query], o)
  /\ UNCHANGED caller_vars
  /\ UNCHANGED << workflow_exists, nodes, edges, user_query, validation, execution,
                  handler_calls >>

Top == stack[Len(stack)]

\* Mutation of Descend: the traversal keeps a visited set, and passes over a
\* successor that was dispatched before.
Descend_visited_mutant ==
  /\ pc = "traversing"
  /\ stack # << >>
  /\ Top.next <= Len(GraphGet(graph, nodes[Top.node].id))
  /\ LET n == FindNode(nodes, GraphGet(graph, nodes[Top.node].id)[Top.next]) IN
     /\ n # 0
     /\ IF \E i \in 1..Len(dispatched) : dispatched[i].node = nodes[n].id
        THEN /\ stack' = [stack EXCEPT ![Len(stack)].next = @ + 1]
             /\ UNCHANGED << pc, context, error, dispatched, llm_calls, documents >>
        ELSE \E o \in OutcomesFor(nodes[n]) : Dispatch(n, context, o)
  /\ UNCHANGED caller_vars
  /\ UNCHANGED << workflow_exists, nodes, edges, user_query, validation, execution,
                  graph, handler_calls >>

\* Mutation of Descend: the successor is passed over, not dispatched.
Descend_mutant ==
  /\ pc = "traversing"
  /\ stack # << >>
  /\ Top.next <= Len(GraphGet(graph, nodes[Top.node].id))
  /\ stack' = [stack EXCEPT ![Len(stack)].next = @ + 1]
  /\ UNCHANGED caller_vars
  /\ UNCHANGED << workflow_exists, nodes, edges, user_query, pc, validation,
                  execution, graph, context, error, dispatched, llm_calls, documents,
                  handler_calls >>

\* The loop of _execute_node, lines 269-276, taking a successor that is a
\* node: the recursive call.
Descend ==
  /\ pc = "traversing"
  /\ stack # << >>
  /\ Top.next <= Len(GraphGet(graph, nodes[Top.node].id))
  /\ LET n == FindNode(nodes, GraphGet(graph, nodes[Top.node].id)[Top.next]) IN
     /\ n # 0
     /\ \E o \in OutcomesFor(nodes[n]) : Dispatch(n, context, o)
  /\ UNCHANGED caller_vars
  /\ UNCHANGED << workflow_exists, nodes, edges, user_query, validation, execution,
                  graph, handler_calls >>

\* The loop of _execute_node on a successor id that is the id of no node:
\* next_node is None and the successor is passed over.
SkipSuccessor ==
  /\ pc = "traversing"
  /\ stack # << >>
  /\ Top.next <= Len(GraphGet(graph, nodes[Top.node].id))
  /\ FindNode(nodes, GraphGet(graph, nodes[Top.node].id)[Top.next]) = 0
  /\ stack' = [stack EXCEPT ![Len(stack)].next = @ + 1]
  /\ UNCHANGED caller_vars
  /\ UNCHANGED << workflow_exists, nodes, edges, user_query, pc, validation,
                  execution, graph, context, error, dispatched, llm_calls, documents,
                  handler_calls >>

\* context.update(next_result), line 276: the caller merges the result the
\* recursive call returned.
ReturnUpdate(ctx, next_result) == Update(ctx, next_result)

\* _execute_node returns `result` (line 278) to the _execute_node that called
\* it, which merges it (line 276) and goes on with its next successor.
Return ==
  /\ pc = "traversing"
  /\ Len(stack) > 1
  /\ Top.next > Len(GraphGet(graph, nodes[Top.node].id))
  /\ context' = ReturnUpdate(context, Top.result)
  /\ stack' = [SubSeq(stack, 1, Len(stack) - 1) EXCEPT ![Len(stack) - 1].next = @ + 1]
  /\ UNCHANGED caller_vars
  /\ UNCHANGED << workflow_exists, nodes, edges, user_query, pc, validation,
                  execution, graph, error, dispatched, llm_calls, documents,
                  handler_calls >>

\* Mutation of final_result: llm_response is read before response.
final_result_mutant(ctx, result) ==
  [response |-> IF Truthy(Get(ctx, "llm_response", None)) THEN ctx["llm_response"]
                ELSE IF Truthy(Get(ctx, "response", None)) THEN ctx["response"]
                ELSE Get(result, "response", None),
   llm_response |-> Get(ctx, "llm_response", None),
   sources |-> Get(ctx, "sources", << >>),
   metadata |-> Get(ctx, "metadata", << >>)]

\* The result of _execute_workflow_logic, lines 221-228; result is what the
\* start node's _execute_node returned.
final_result(ctx, result) ==
  LET r1 == Get(ctx, "response", None)
      r2 == Get(ctx, "llm_response", None)
      r3 == Get(result, "response", None)
  IN  [response |-> IF Truthy(r1) THEN r1 ELSE IF Truthy(r2) THEN r2 ELSE r3,
       llm_response |-> Get(ctx, "llm_response", None),
       sources |-> Get(ctx, "sources", << >>),
       metadata |-> Get(ctx, "metadata", << >>)]

\* Mutation of ExecuteComplete: execution_result is not assigned.
ExecuteComplete_mutant ==
  /\ pc = "traversing"
  /\ Len(stack) = 1
  /\ Top.next > Len(GraphGet(graph, nodes[Top.node].id))
  /\ execution' = [execution EXCEPT !.status = "completed", !.commits = @ + 1]
  /\ stack' = << >>
  /\ pc' = "returned"
  /\ UNCHANGED caller_vars
  /\ UNCHANGED << workflow_exists, nodes, edges, user_query, validation, graph,
                  context, error, dispatched, llm_calls, documents,
                  handler_calls >>

\* The start node's _execute_node returns, _execute_workflow_logic returns its
\* result, and execute_workflow records it (lines 185-187, 193-195).
ExecuteComplete ==
  /\ pc = "traversing"
  /\ Len(stack) = 1
  /\ Top.next > Len(GraphGet(graph, nodes[Top.node].id))
  /\ execution' = [execution EXCEPT !.result = << final_result(context, Top.result) >>,
                                    !.status = "completed",
                                    !.commits = @ + 1]
  /\ stack' = << >>
  /\ pc' = "returned"
  /\ UNCHANGED caller_vars
  /\ UNCHANGED << workflow_exists, nodes, edges, user_query, validation, graph,
                  context, error, dispatched, llm_calls, documents,
                  handler_calls >>

\* Mutation of ExecuteExcept: the exception is raised again and the row is
\* left as it is.
ExecuteExcept_reraise_mutant ==
  /\ pc = "except"
  /\ pc' = "raised"
  /\ stack' = << >>
  /\ UNCHANGED caller_vars
  /\ UNCHANGED << workflow_exists, nodes, edges, user_query, validation, graph,
                  context, error, dispatched, llm_calls, documents,
                  handler_calls, execution >>

\* Mutation of ExecuteExcept: except ValueError in place of except Exception.
ExecuteExcept_mutant ==
  /\ pc = "except"
  /\ IF error.msg \in {"No user query component found", "Unknown component type"}
     THEN /\ execution' = [execution EXCEPT !.status = "failed",
                                            !.logs = << [error |-> error] >>,
                                            !.commits = @ + 1]
          /\ pc' = "returned"
     ELSE /\ execution' = execution
          /\ pc' = "raised"
  /\ stack' = << >>
  /\ UNCHANGED caller_vars
  /\ UNCHANGED << workflow_exists, nodes, edges, user_query, validation, graph,
                  context, error, dispatched, llm_calls, documents,
                  handler_calls >>

\* except Exception as e (lines 189-195): the row is recorded failed.
ExecuteExcept ==
  /\ pc = "except"
  /\ execution' = [execution EXCEPT !.status = "failed",
                                    !.logs = << [error |-> error] >>,
                                    !.commits = @ + 1]
  /\ stack' = << >>
  /\ pc' = "returned"
  /\ UNCHANGED caller_vars
  /\ UNCHANGED << workflow_exists, nodes, edges, user_query, validation, graph,
                  context, error, dispatched, llm_calls, documents,
                  handler_calls >>

Next ==
  \/ Validate
  \/ ExecuteStart
  \/ ExecuteLogic
  \/ Descend
  \/ SkipSuccessor
  \/ Return
  \/ ExecuteComplete
  \/ ExecuteExcept

Spec == Init /\ [][Next]_vars

\* ------------------------------------------------------ accepted workflows
\* The workflows validate_workflow accepts, of at most MaxAcceptedNodes nodes
\* and MaxAcceptedEdges edges.
InitAccepted ==
  /\ workflow_exists = TRUE
  /\ nodes \in NodeListsUpTo(MaxAcceptedNodes)
  /\ required_components(nodes) = ""
  /\ edges \in EdgeListsUpTo(Len(nodes), MaxAcceptedEdges)
  /\ validate_workflow(nodes, edges).valid
  /\ user_query \in Queries
  /\ pc = "idle"
  /\ validation = NotValidated
  /\ execution = NoExecution
  /\ graph = << >>
  /\ context = << >>
  /\ stack = << >>
  /\ error = NoError
  /\ dispatched = << >>
  /\ llm_calls = << >>
  /\ documents = NoDocuments
  /\ handler_calls = << >>
  /\ other = NoFrame
  /\ chat = NoChat
  /\ kb_calls = << >>

\* Every edge of an accepted workflow ends at a node: no successor is passed
\* over.
NextAccepted ==
  \/ Validate
  \/ ExecuteStart
  \/ ExecuteLogic
  \/ Descend
  \/ Return
  \/ ExecuteComplete
  \/ ExecuteExcept

SpecAccepted == InitAccepted /\ [][NextAccepted]_vars

\* ------------------------------------------------------- one handler alone
\* The nodes whose handler is called alone: every configuration of Kinds
\* that has a handler, a language model with a custom prompt, and knowledge
\* bases that select one and two documents.
HandlerNodes ==
  { [id |-> 1, component_type |-> "knowledgeBase", config |-> c] :
      c \in { {"apiKey"},
              {"apiKey", "selectedDocuments:doc1"},
              {"apiKey", "selectedDocuments:doc1", "selectedDocuments:doc2"},
              {"apiKey", "selectedDocuments:ids"} } }
  \cup { [id |-> 1, component_type |-> "llm", config |-> c] :
           c \in { {"model", "apiKey"},
                   {"webSearchEnabled"},
                   {"model", "apiKey", "prompt"},
                   {"model", "apiKey", "temperature:text"} } }
  \cup { [id |-> 1, component_type |-> "webSearch", config |-> {"apiKey"}],
         [id |-> 1, component_type |-> "outputN", config |-> {}] }

\* The keys of the context the handlers read, and the values they are
\* called with; a key mapped to Unused is absent.
ContextValues ==
  [knowledge_context : {Unused, "", ChunkBlock},
   llm_response : {Unused, "", " ", "t1"},
   sources : {<< >>, << Chunk >>},
   has_sources : BOOLEAN,
   model_used : {Unused, "model"},
   web_search_used : BOOLEAN,
   has_web_search_used : BOOLEAN]

\* The context dict of a choice of ContextValues.
ContextOf(v) ==
  LET keys == {"user_query"}
                \cup (IF v.knowledge_context # Unused THEN {"knowledge_context"} ELSE {})
                \cup (IF v.llm_response # Unused THEN {"llm_response"} ELSE {})
                \cup (IF v.has_sources THEN {"sources"} ELSE {})
                \cup (IF v.model_used # Unused THEN {"model_used"} ELSE {})
                \cup (IF v.has_web_search_used THEN {"web_search_used"} ELSE {})
  IN  [k \in keys |->
         IF k = "user_query" THEN "hello"
         ELSE IF k = "knowledge_context" THEN v.knowledge_context
         ELSE IF k = "llm_response" THEN v.llm_response
         ELSE IF k = "sources" THEN v.sources
         ELSE IF k = "model_used" THEN v.model_used
         ELSE v.web_search_used]

\* The keys the handler of a component type reads from the context.
KeysRead(component_type) ==
  IF component_type = "llm" THEN {"user_query", "knowledge_context"}
  ELSE IF component_type = "outputN"
  THEN {"llm_response", "sources", "model_used", "web_search_used"}
  ELSE {"user_query"}

\* One handler, called with a context that holds user_query and any of the
\* keys the handler reads, over any document store if it selects documents.
InitHandlers ==
  /\ workflow_exists = TRUE
  /\ nodes \in { << n >> : n \in HandlerNodes }
  /\ edges = << >>
  /\ user_query = "hello"
  /\ pc = "handler"
  /\ validation = NotValidated
  /\ execution = NoExecution
  /\ graph = << >>
  /\ context \in { c \in { ContextOf(v) : v \in ContextValues } :
                     DOMAIN c \subseteq KeysRead(nodes[1].component_type) \cup {"user_query"} }
  /\ stack = << >>
  /\ error = NoError
  /\ dispatched = << >>
  /\ llm_calls = << >>
  /\ documents \in { d \in Stores : document_ids(nodes[1].config) = << >> => d = NoDocuments }
  /\ handler_calls = << >>
  /\ other = NoFrame
  /\ chat = NoChat
  /\ kb_calls = << >>

\* One call of the handler of nodes[1] as _execute_node calls it (lines
\* 250-260), the context left as it is: what it was called on, the exception
\* it raised or the result it returned, and the generation calls it made.
HandlerCall ==
  /\ pc = "handler"
  /\ Len(handler_calls) < MaxCalls
  /\ \E o \in OutcomesFor(nodes[1]) :
       /\ handler_calls' =
            Append(handler_calls,
                   [documents |-> documents,
                    outcome |-> o,
                    error |-> IF HandlerRaises(nodes[1]) THEN HandlerError(nodes[1])
                              ELSE NoError,
                    result |-> IF HandlerRaises(nodes[1]) THEN << >>
                               ELSE HandlerResult(nodes[1], context, documents, o),
                    generated |-> HandlerGenerated(nodes[1], context, documents, o)])
       /\ documents' = HandlerDocuments(nodes[1], context, documents, o)
       /\ llm_calls' = IF HandlerRaises(nodes[1]) THEN llm_calls
                       ELSE llm_calls \o CallsOf(nodes[1], context, o)
  /\ UNCHANGED caller_vars
  /\ UNCHANGED << workflow_exists, nodes, edges, user_query, pc, validation,
                  execution, graph, context, stack, error, dispatched >>

SpecHandlers == InitHandlers /\ [][HandlerCall]_vars

\* validate_workflow alone, applied to workflows of up to MaxAcceptedNodes
\* nodes: the three required components and one more node.
InitValidateWide ==
  /\ workflow_exists \in BOOLEAN
  /\ nodes \in NodeListsUpTo(MaxAcceptedNodes)
  /\ edges \in EdgeLists(Len(nodes))
  /\ workflow_exists = FALSE => nodes = << >> /\ edges = << >>
  /\ user_query \in Queries
  /\ pc = "idle"
  /\ validation = NotValidated
  /\ execution = NoExecution
  /\ graph = << >>
  /\ context = << >>
  /\ stack = << >>
  /\ error = NoError
  /\ dispatched = << >>
  /\ llm_calls = << >>
  /\ documents = NoDocuments
  /\ handler_calls = << >>
  /\ other = NoFrame
  /\ chat = NoChat
  /\ kb_calls = << >>

SpecValidateWide == InitValidateWide /\ [][Validate]_vars

\* The steps of execute_workflow once the row is created.  The event loop
\* runs the call whenever it can go on, and every capability call returns
\* or fails: no step of it is put off forever.
ExecuteSteps ==
  \/ ExecuteLogic
  \/ Descend
  \/ Return
  \/ ExecuteComplete
  \/ ExecuteExcept

\* The workflows of at most MaxNodes nodes and MaxAcceptedEdges edges that
\* validate_workflow accepts.
InitAcceptedFair ==
  /\ workflow_exists = TRUE
  /\ nodes \in NodeLists
  /\ required_components(nodes) = ""
  /\ edges \in EdgeListsUpTo(Len(nodes), MaxAcceptedEdges)
  /\ validate_workflow(nodes, edges).valid
  /\ user_query \in Queries
  /\ pc = "idle"
  /\ validation = NotValidated
  /\ execution = NoExecution
  /\ graph = << >>
  /\ context = << >>
  /\ stack = << >>
  /\ error = NoError
  /\ dispatched = << >>
  /\ llm_calls = << >>
  /\ documents = NoDocuments
  /\ handler_calls = << >>
  /\ other = NoFrame
  /\ chat = NoChat
  /\ kb_calls = << >>

SpecAcceptedFair ==
  InitAcceptedFair /\ [][NextAccepted]_vars /\ WF_vars(ExecuteSteps)

\* --------------------------------- two _execute_knowledge_base calls
\* The knowledge base handlers of two runs on one event loop and one
\* database, step by step: a call runs from one await to the next, and the
\* other call steps only while this one waits.  A call is
\* [ids, pc, missing, next, started, generated, error]; pc is "called",
\* "generating" (in the second loop, not waiting), "awaiting" (in
\* generate_document_embeddings, waiting for the embeddings API),
\* "searching" (waiting for search_similar) or "done".
MaxSelected == 2

\* The selectedDocuments lists of mappings {id: ...}: ids in any order, an
\* id listed twice included.
SelectedLists ==
  UNION { [1..n -> DocIdSet] : n \in 1..MaxSelected }

NewKBCall(ids) ==
  [ids |-> ids, pc |-> "called", missing |-> << >>, next |-> 1,
   started |-> << >>, generated |-> << >>, error |-> NoError]

\* The other call is not in the middle of code that runs without an await.
MayStep(c) == \A o \in DOMAIN kb_calls : o # c => kb_calls[o].pc # "generating"

\* Lines 291-299: the first loop, which has no await.
KBCheck ==
  \E c \in DOMAIN kb_calls :
    /\ MayStep(c)
    /\ kb_calls[c].pc = "called"
    /\ LET missing == missing_embeddings(documents, kb_calls[c].ids) IN
       kb_calls' = [kb_calls EXCEPT ![c].missing = missing,
                                    ![c].pc = IF missing = << >> THEN "searching"
                                              ELSE "generating"]
    /\ UNCHANGED << other, chat, workflow_exists, nodes, edges, user_query, pc,
                    validation, execution, graph, context, stack, error, dispatched,
                    llm_calls, documents, handler_calls >>

\* Lines 302-304 and generate_document_embeddings up to its await (lines
\* 150-163 of embedding_service.py): the document is looked up, its rows
\* are deleted, its text is split.
KBGenerateStart ==
  \E c \in DOMAIN kb_calls :
    /\ MayStep(c)
    /\ kb_calls[c].pc = "generating"
    /\ LET d == kb_calls[c].missing[kb_calls[c].next]
           raised == generate_document_embeddings(documents, d, "ok")
       IN  IF raised.error # NoError
           THEN /\ kb_calls' = [kb_calls EXCEPT ![c].pc = "done",
                                                ![c].error = raised.error]
                /\ documents' = raised.documents
           ELSE /\ kb_calls' = [kb_calls EXCEPT ![c].pc = "awaiting",
                                                ![c].started = Append(@, d)]
                /\ documents' = documents
    /\ UNCHANGED << other, chat, workflow_exists, nodes, edges, user_query, pc,
                    validation, execution, graph, context, stack, error, dispatched,
                    llm_calls, handler_calls >>

\* The embeddings API answers or fails (lines 164-199 of
\* embedding_service.py): the rows are added and committed, or the
\* exception ends the handler in its except branch.
KBGenerateEnd ==
  \E c \in DOMAIN kb_calls, api \in {"ok", "raise"} :
    /\ MayStep(c)
    /\ kb_calls[c].pc = "awaiting"
    /\ LET d == kb_calls[c].missing[kb_calls[c].next]
           g == generate_document_embeddings(documents, d, api)
       IN  /\ documents' = g.documents
           /\ IF g.error # NoError
              THEN kb_calls' = [kb_calls EXCEPT ![c].pc = "done", ![c].error = g.error]
              ELSE kb_calls' =
                     [kb_calls EXCEPT ![c].generated = Append(@, d),
                                      ![c].next = @ + 1,
                                      ![c].pc = IF kb_calls[c].next + 1 > Len(kb_calls[c].missing)
                                                THEN "searching" ELSE "generating"]
    /\ UNCHANGED << other, chat, workflow_exists, nodes, edges, user_query, pc,
                    validation, execution, graph, context, stack, error, dispatched,
                    llm_calls, handler_calls >>

\* search_similar answers or fails (lines 312-341): the handler returns.
KBSearch ==
  \E c \in DOMAIN kb_calls :
    /\ MayStep(c)
    /\ kb_calls[c].pc = "searching"
    /\ kb_calls' = [kb_calls EXCEPT ![c].pc = "done"]
    /\ UNCHANGED << other, chat, workflow_exists, nodes, edges, user_query, pc,
                    validation, execution, graph, context, stack, error, dispatched,
                    llm_calls, documents, handler_calls >>

\* Two calls whose selectedDocuments lists have a document in common, over
\* every store.
InitKnowledgeBases ==
  /\ workflow_exists = TRUE
  /\ nodes = << >>
  /\ edges = << >>
  /\ user_query \in Queries
  /\ pc = "knowledge_base"
  /\ validation = NotValidated
  /\ execution = NoExecution
  /\ graph = << >>
  /\ context = << >>
  /\ stack = << >>
  /\ error = NoError
  /\ dispatched = << >>
  /\ llm_calls = << >>
  /\ documents \in Stores
  /\ handler_calls = << >>
  /\ other = NoFrame
  /\ chat = NoChat
  /\ kb_calls \in { << NewKBCall(a), NewKBCall(b) >> :
                      a \in SelectedLists, b \in SelectedLists }
  /\ \E i \in DOMAIN kb_calls[1].ids, j \in DOMAIN kb_calls[2].ids :
       kb_calls[1].ids[i] = kb_calls[2].ids[j]

NextKnowledgeBases ==
  \/ KBCheck
  \/ KBGenerateStart
  \/ KBGenerateEnd
  \/ KBSearch

SpecKnowledgeBases == InitKnowledgeBases /\ [][NextKnowledgeBases]_vars

\* ------------------------------------------- two execute_workflow calls
\* Two calls of execute_workflow on one workflow run on one event loop: one
\* call runs at a time, and the loop passes to the other call where the
\* running call awaits an external capability, or when it has ended.  The
\* variables of execute_workflow hold the running call, `other` the call
\* that waits.  The query of the second call:
OtherQuery == "bye"

\* The locals of the running call: the arguments, the row, and what
\* _execute_workflow_logic and the _execute_node calls hold.
Frame ==
  [user_query |-> user_query, pc |-> pc, execution |-> execution, graph |-> graph,
   context |-> context, stack |-> stack, error |-> error,
   dispatched |-> dispatched, llm_calls |-> llm_calls]

\* Mutation of ResumedContext: the context is one dict both calls use.
ResumedContext_mutant(frame) == context

\* The context a call finds when it resumes: the dict its own
\* _execute_workflow_logic created at line 216.
ResumedContext(frame) == frame.context

\* The handler of `node` awaits an external capability.
CallsCapability(node) ==
  /\ node.component_type \in {"knowledgeBase", "llm", "webSearch"}
  /\ ~HandlerRaises(node)

\* The running call is about to await a capability: the traversal has come
\* to a successor whose handler calls one.
AtSuspensionPoint ==
  /\ pc = "traversing"
  /\ stack # << >>
  /\ Top.next <= Len(GraphGet(graph, nodes[Top.node].id))
  /\ LET n == FindNode(nodes, GraphGet(graph, nodes[Top.node].id)[Top.next]) IN
     n # 0 /\ CallsCapability(nodes[n])

\* The event loop passes from the running call to the one that waits.
Switch ==
  /\ other.pc \notin {"none", "returned", "raised"}
  /\ AtSuspensionPoint \/ pc \in {"returned", "raised"}
  /\ other' = Frame
  /\ user_query' = other.user_query
  /\ pc' = other.pc
  /\ execution' = other.execution
  /\ graph' = other.graph
  /\ context' = ResumedContext(other)
  /\ stack' = other.stack
  /\ error' = other.error
  /\ dispatched' = other.dispatched
  /\ llm_calls' = other.llm_calls
  /\ UNCHANGED << workflow_exists, nodes, edges, validation, documents,
                  handler_calls, chat, kb_calls >>

\* Two calls on a workflow validate_workflow accepts, neither begun.
InitConcurrent ==
  /\ workflow_exists = TRUE
  /\ nodes \in NodeLists
  /\ required_components(nodes) = ""
  /\ edges \in EdgeLists(Len(nodes))
  /\ validate_workflow(nodes, edges).valid
  /\ user_query \in Queries
  /\ pc = "idle"
  /\ validation = NotValidated
  /\ execution = NoExecution
  /\ graph = << >>
  /\ context = << >>
  /\ stack = << >>
  /\ error = NoError
  /\ dispatched = << >>
  /\ llm_calls = << >>
  /\ documents = NoDocuments
  /\ handler_calls = << >>
  /\ other = [NoFrame EXCEPT !.user_query = OtherQuery, !.pc = "idle"]
  /\ chat = NoChat
  /\ kb_calls = << >>

NextConcurrent ==
  \/ ExecuteStart
  \/ ExecuteLogic
  \/ Descend
  \/ Return
  \/ ExecuteComplete
  \/ ExecuteExcept
  \/ Switch

SpecConcurrent == InitConcurrent /\ [][NextConcurrent]_vars

\* ------------------------------------------------ ChatService.process_message
\* str(v) of Python for the values an execution result holds: str(None) is
\* the text 'None', a text is itself.
PyStr(v) == IF v = None THEN "None" ELSE v

\* What process_message answers when execute_workflow has returned a row:
\* str(execution_result.get("llm_response")) of `execution.execution_result
\* or {}`, with the sources of the result.
ChatAnswer(exec) ==
  LET execution_result == IF exec.result = << >> THEN << >> ELSE exec.result[1]
  IN  [response |-> PyStr(Get(execution_result, "llm_response", None)),
       sources |-> Get(execution_result, "sources", << >>),
       error |-> FALSE]

\* What the except branch of process_message answers.
ChatErrorAnswer(e) ==
  [response |-> "Sorry, I encountered an error: " \o e.msg,
   sources |-> << >>,
   error |-> TRUE]

\* process_message up to the await of execute_workflow: the session is
\* looked up, the user message is added.
ProcessMessageStart ==
  /\ pc = "chat"
  /\ IF chat.session
     THEN /\ chat' = [chat EXCEPT !.status = "awaiting",
                                  !.messages = Append(@, [message_type |-> "user",
                                                          content |-> user_query])]
          /\ pc' = "idle"
     ELSE /\ chat' = [chat EXCEPT !.status = "raised"]
          /\ pc' = "chat_raised"
  /\ UNCHANGED << other, kb_calls, workflow_exists, nodes, edges, user_query, validation,
                  execution, graph, context, stack, error, dispatched, llm_calls,
                  documents, handler_calls >>

\* process_message after execute_workflow has returned or raised: the
\* assistant message is added and the ChatResponse returned.
ProcessMessageEnd ==
  /\ chat.status = "awaiting"
  /\ pc \in {"returned", "raised"}
  /\ LET answer == IF pc = "returned" THEN ChatAnswer(execution)
                   ELSE ChatErrorAnswer(error)
     IN  chat' = [chat EXCEPT !.status = "answered",
                              !.messages = Append(@, [message_type |-> "assistant",
                                                      content |-> answer.response]),
                              !.response = << answer >>]
  /\ pc' = "chat_returned"
  /\ UNCHANGED << other, kb_calls, workflow_exists, nodes, edges, user_query, validation,
                  execution, graph, context, stack, error, dispatched, llm_calls,
                  documents, handler_calls >>

\* One process_message call, on a session that exists or not; the workflow
\* of an existing session is any stored workflow, or a deleted one.
InitChat ==
  /\ chat \in [session : BOOLEAN, status : {"none"}, messages : {<< >>},
                response : {<< >>}]
  /\ workflow_exists \in BOOLEAN
  /\ chat.session = FALSE => workflow_exists = FALSE
  /\ nodes \in NodeLists
  /\ edges \in EdgeLists(Len(nodes))
  /\ workflow_exists = FALSE => nodes = << >> /\ edges = << >>
  /\ user_query \in Queries
  /\ pc = "chat"
  /\ validation = NotValidated
  /\ execution = NoExecution
  /\ graph = << >>
  /\ context = << >>
  /\ stack = << >>
  /\ error = NoError
  /\ dispatched = << >>
  /\ llm_calls = << >>
  /\ documents = NoDocuments
  /\ handler_calls = << >>
  /\ other = NoFrame
  /\ kb_calls = << >>

NextChat ==
  \/ ProcessMessageStart
  \/ ExecuteStart
  \/ ExecuteLogic
  \/ Descend
  \/ SkipSuccessor
  \/ Return
  \/ ExecuteComplete
  \/ ExecuteExcept
  \/ ProcessMessageEnd

SpecChat == InitChat /\ [][NextChat]_vars

\* validate_workflow alone, applied to every workflow of Init.
SpecValidate == Init /\ [][Validate]_vars

\* ======================================================== graph predicates
\* The edges between nodes of the graph, as a relation.
EdgeRel(ns, es) ==
  { << es[i].source, es[i].target >> : i \in { j \in 1..Len(es) :
      es[j].source \in NodeIds(ns) /\ es[j].target \in NodeIds(ns) } }

RECURSIVE ReachFrom(_, _)
\* The nodes reached from the set S by zero or more edges of R.
ReachFrom(S, R) ==
  LET T == S \cup { p[2] : p \in { q \in R : q[1] \in S } }
  IN  IF T = S THEN S ELSE ReachFrom(T, R)

\* b is reached from a by one or more edges.
Reaches(ns, es, a, b) ==
  b \in ReachFrom({ p[2] : p \in { q \in EdgeRel(ns, es) : q[1] = a } }, EdgeRel(ns, es))

\* A directed cycle through two or more nodes.
CycleAmongNodes(ns, es) ==
  \E a \in NodeIds(ns), b \in NodeIds(ns) :
    a # b /\ Reaches(ns, es, a, b) /\ Reaches(ns, es, b, a)

\* A directed cycle of any length, self-loops included.
AnyCycle(ns, es) == \E a \in NodeIds(ns) : Reaches(ns, es, a, a)

RequiredPresent(ns) == {"userQuery", "outputN", "llm"} \subseteq ComponentTypes(ns)

Dangling(ns, es) ==
  \E i \in 1..Len(es) : es[i].source \notin NodeIds(ns) \/ es[i].target \notin NodeIds(ns)

\* A node of one of the three type names _validate_component_config tests,
\* without a key it requires of that type.
RefusedConfig(node) ==
  \/ node.component_type = "llm_engine" /\ ~({"model", "apiKey"} \subseteq node.config)
  \/ node.component_type = "knowledge_base" /\ "apiKey" \notin node.config
  \/ node.component_type = "web_search" /\ "apiKey" \notin node.config

Validated == pc = "validated"

MissingComponentErrors ==
  { "Workflow must have a User Query component",
    "Workflow must have an Output component",
    "Workflow must have an LLM Engine component" }

\* ================================================================== claims
\* C1 as stated: every graph with a directed cycle among two or more nodes
\* fails with 'Workflow contains cycles', and every acyclic graph with the
\* required components validates.
C1_AsStated ==
  Validated =>
    /\ CycleAmongNodes(nodes, edges) => validation.error = "Workflow contains cycles"
    /\ (~AnyCycle(nodes, edges) /\ RequiredPresent(nodes)) => validation.valid

\* C1 (amended): among the graphs that have the required components and no
\* dangling edge, every graph with a directed cycle among two or more nodes
\* fails with 'Workflow contains cycles', and every acyclic graph none of
\* whose nodes _validate_component_config refuses validates.
C1_Acyclicity ==
  (Validated /\ RequiredPresent(nodes) /\ ~Dangling(nodes, edges)) =>
    /\ CycleAmongNodes(nodes, edges) =>
         (~validation.valid /\ validation.error = "Workflow contains cycles")
    /\ (~AnyCycle(nodes, edges) /\ \A i \in 1..Len(nodes) : ~RefusedConfig(nodes[i]))
         => validation.valid

C1_Witness ==
  /\ Validated /\ RequiredPresent(nodes) /\ ~Dangling(nodes, edges)
  /\ CycleAmongNodes(nodes, edges)
  /\ validation.error = "Workflow contains cycles"

\* C2: a non-empty graph that lacks a userQuery, an outputN or an llm node
\* fails with the missing-component error of the first type it lacks,
\* whatever its edges, cycles and configurations.
C2_RequiredComponents ==
  (Validated /\ nodes # << >> /\ ~RequiredPresent(nodes)) =>
    /\ ~validation.valid
    /\ validation.error \in MissingComponentErrors
    /\ validation.error =
         IF "userQuery" \notin ComponentTypes(nodes)
         THEN "Workflow must have a User Query component"
         ELSE IF "outputN" \notin ComponentTypes(nodes)
         THEN "Workflow must have an Output component"
         ELSE "Workflow must have an LLM Engine component"

C2_Witness ==
  /\ Validated
  /\ {"userQuery", "outputN"} \subseteq ComponentTypes(nodes)
  /\ "llm" \notin ComponentTypes(nodes)
  /\ CycleAmongNodes(nodes, edges)
  /\ validation.error = "Workflow must have an LLM Engine component"

\* C3: a graph with the required components and an edge whose source or
\* target is the id of no node fails with 'Invalid edge connection', with or
\* without a cycle, and _has_cycles is not called.
C3_DanglingEdge ==
  (Validated /\ RequiredPresent(nodes) /\ Dangling(nodes, edges)) =>
    /\ ~validation.valid
    /\ validation.error = "Invalid edge connection"
    /\ ~validation.cycle_checked

C3_Witness ==
  /\ Validated /\ RequiredPresent(nodes)
  /\ \E i \in 1..Len(edges) :
       edges[i].source \in NodeIds(nodes) /\ edges[i].target \notin NodeIds(nodes)
  /\ AnyCycle(nodes, edges)
  /\ validation.error = "Invalid edge connection"

\* A node the configuration rules of C4 refuse.
C4_Refused(node) ==
  \/ node.component_type = "llm" /\ ~({"model", "apiKey"} \subseteq node.config)
  \/ node.component_type = "llm" /\ "webSearchEnabled" \in node.config
                                 /\ "serpApi" \notin node.config
  \/ node.component_type = "knowledgeBase" /\ "apiKey" \notin node.config
  \/ node.component_type = "webSearch" /\ "apiKey" \notin node.config

\* C4: when the structural checks pass, a graph with an llm node lacking
\* model or apiKey (or serpApi under webSearchEnabled), or a knowledgeBase or
\* webSearch node lacking apiKey, fails with a configuration error naming
\* such a node.
C4_ConfigValidation ==
  (/\ Validated /\ RequiredPresent(nodes) /\ ~Dangling(nodes, edges)
   /\ ~AnyCycle(nodes, edges)
   /\ \E i \in 1..Len(nodes) : C4_Refused(nodes[i])) =>
    /\ ~validation.valid
    /\ validation.node \in NodeIds(nodes)
    /\ C4_Refused(nodes[validation.node])

\* ------------------------------------------------------- execute_workflow
Returned == pc = "returned"

Terminal == {"completed", "failed"}

\* C5 as stated: no execute_workflow call raises.
C5_AsStated == pc # "raised"

\* C5 (amended): execute_workflow raises only for a workflow id that does not
\* exist (ValueError 'Workflow not found', no row created); on an existing
\* workflow every call goes on until it returns, and it returns a row that
\* is completed with a result or failed with logs.error.
C5_NeverRaises ==
  /\ pc = "raised" =>
       (~workflow_exists /\ execution = NoExecution
        /\ error = Err("Workflow not found", ""))
  /\ pc \in {"running", "traversing", "except"} => ENABLED Next
  /\ Returned =>
       /\ execution.status \in Terminal
       /\ execution.status = "completed" => Len(execution.result) = 1
       /\ execution.status = "failed" => execution.logs = << [error |-> error] >>

C5_Witness ==
  /\ Returned /\ execution.status = "failed"
  /\ error.msg = "Unknown component type"
  /\ dispatched # << >>

\* C6: the row is created running before any dispatch; its status then
\* changes once, to completed or failed, and never again; each write of the
\* row is one commit, two in all when the call returns.
C6_RunRecordStateMachine ==
  [][ /\ execution'.status # execution.status =>
           \/ execution.status = "none" /\ execution'.status = "running"
           \/ execution.status = "running" /\ execution'.status \in Terminal
      /\ dispatched' # dispatched => execution.status = "running"
      /\ execution' # execution => execution'.commits = execution.commits + 1
      /\ execution'.commits <= 2
      /\ pc' = "returned" => (execution'.status \in Terminal /\ execution'.commits = 2)
    ]_vars

C6_Witness ==
  /\ Returned /\ execution.status = "completed" /\ execution.commits = 2
  /\ Len(dispatched) >= 2

\* C7: a returned row is completed exactly when no exception left the
\* traversal, and then it has a result and no logs; it is failed exactly when
\* one did, and then logs.error is that exception and it has no result.
C7_OutcomeRecording ==
  Returned =>
    /\ execution.status = "completed" <=> error = NoError
    /\ execution.status = "failed" <=> error # NoError
    /\ execution.status = "completed" =>
         (Len(execution.result) = 1 /\ execution.logs = << >>)
    /\ execution.status = "failed" =>
         (execution.logs = << [error |-> error] >> /\ execution.result = << >>)

C7_Witness ==
  /\ Returned /\ execution.status = "completed"
  /\ execution.result[1].response = "t1"

\* C8: on a graph with no userQuery node, or whose edges make the builder
\* raise, no node is dispatched and the call returns a failed row whose
\* logs.error is that failure.
C8_ExecutorFailures ==
  (workflow_exists /\ (FindStart(nodes) = 0 \/ BuildRaises(nodes, edges))) =>
    /\ dispatched = << >>
    /\ pc # "raised"
    /\ Returned =>
         /\ execution.status = "failed"
         /\ execution.logs =
              << [error |-> IF \E i \in 1..Len(edges) : edges[i].source \notin NodeIds(nodes)
                            THEN Err("KeyError", "0")
                            ELSE Err("No user query component found", "")] >>

C8_Witness ==
  /\ Returned /\ FindStart(nodes) # 0
  /\ \E i \in 1..Len(edges) : edges[i].source \notin NodeIds(nodes)
  /\ execution.status = "failed"

\* The graph userQuery -> llm -> outputN and nothing else.
QueryLLMOutput ==
  /\ Len(nodes) = 3 /\ Len(edges) = 2
  /\ \E q \in 1..3, l \in 1..3, o \in 1..3 :
       /\ nodes[q].component_type = "userQuery"
       /\ nodes[l].component_type = "llm"
       /\ nodes[o].component_type = "outputN"
       /\ EdgeRel(nodes, edges) = { << nodes[q].id, nodes[l].id >>,
                                    << nodes[l].id, nodes[o].id >> }

EveryLLMCallRaised ==
  /\ llm_calls # << >>
  /\ \A i \in 1..Len(llm_calls) : llm_calls[i].outcome.kind = "raise"

Contributors(k) == { i \in 1..Len(dispatched) : k \in DOMAIN dispatched[i].result }

Last(S) == CHOOSE i \in S : \A j \in S : j <= i

\* C10: after a completed traversal every key a node contributed holds the
\* contribution of the node dispatched last among those that contributed it.
C10_LastWriterWins ==
  (Returned /\ execution.status = "completed") =>
    \A k \in DOMAIN context :
      Contributors(k) # {} =>
        context[k] = dispatched[Last(Contributors(k))].result[k]

\* ------------------------------------------------------------- traversal
\* The targets of the edges that leave `id`, in the order of the edge list.
SuccessorsOf(es, id) ==
  LET leaving == SelectSeq(es, LAMBDA e : e.source = id)
  IN  [i \in 1..Len(leaving) |-> leaving[i].target]

RECURSIVE Preorder(_, _, _, _)
RECURSIVE PreorderOfAll(_, _, _, _, _)
\* The ids of the nodes a depth-first walk from `id` meets, each before its
\* successors, successors in edge order, a node once for every path to it;
\* the walk is cut at depth `fuel`.
Preorder(ns, es, id, fuel) ==
  IF fuel = 0 \/ id \notin NodeIds(ns) THEN << >>
  ELSE << id >> \o PreorderOfAll(ns, es, SuccessorsOf(es, id), 1, fuel - 1)

PreorderOfAll(ns, es, targets, i, fuel) ==
  IF i > Len(targets) THEN << >>
  ELSE Preorder(ns, es, targets[i], fuel) \o PreorderOfAll(ns, es, targets, i + 1, fuel)

\* The nodes dispatched so far, in dispatch order.
DispatchedNodes == [i \in 1..Len(dispatched) |-> dispatched[i].node]

IsPrefix(p, q) == Len(p) <= Len(q) /\ \A i \in 1..Len(p) : p[i] = q[i]

\* The keys the dispatches so far contributed.
ContributedKeys == UNION { DOMAIN dispatched[i].result : i \in 1..Len(dispatched) }

\* C11: the nodes are dispatched one at a time in the order of the
\* depth-first walk from the entry, successors in edge order; so the nodes
\* dispatched before a node are its ancestors and the subtrees of the earlier
\* siblings of it and of its ancestors, and the context the node reads holds
\* every key they contributed, with the contribution of the one of them
\* dispatched last.
C11_FanOutVisibility ==
  [][ (dispatched' # dispatched /\ dispatched # << >>) =>
        /\ Len(dispatched') = Len(dispatched) + 1
        /\ IsPrefix(DispatchedNodes',
                    Preorder(nodes, edges, nodes[FindStart(nodes)].id, RecursionLimit))
        /\ \A k \in ContributedKeys :
             /\ k \in DOMAIN context
             /\ context[k] = dispatched[Last(Contributors(k))].result[k]
    ]_vars

\* The component type of the node of the i-th dispatch.
TypeOf(i) == nodes[dispatched[i].node].component_type

Completed == Returned /\ execution.status = "completed"

\* C12: from one step to the next the context keeps every key it had, and
\* from the first dispatch on it has the key user_query.
C12_ContextMonotonicity ==
  [][ /\ DOMAIN context \subseteq DOMAIN context'
      /\ dispatched' # << >> => "user_query" \in DOMAIN context'
    ]_vars

C12_Witness ==
  /\ Completed
  /\ {"user_query", "query", "knowledge_context", "sources", "llm_response",
      "model_used", "web_search_used"} \subseteq DOMAIN context

\* C13: the response of a completed run is the context's response if it is
\* not empty, else the context's llm_response if it is not empty, else the
\* response field of the result of the node dispatched last; llm_response,
\* sources and metadata are the context's, None, [] and {} when absent.
C13_FinalResponsePrecedence ==
  Completed =>
    LET r == execution.result[1]
        last == dispatched[Len(dispatched)].result
    IN  /\ r.response =
             IF "response" \in DOMAIN context /\ context["response"] # ""
             THEN context["response"]
             ELSE IF "llm_response" \in DOMAIN context /\ context["llm_response"] # ""
             THEN context["llm_response"]
             ELSE IF "response" \in DOMAIN last THEN last["response"] ELSE None
        /\ r.llm_response =
             IF "llm_response" \in DOMAIN context THEN context["llm_response"] ELSE None
        /\ r.sources = IF "sources" \in DOMAIN context THEN context["sources"] ELSE << >>
        /\ r.metadata = IF "metadata" \in DOMAIN context THEN context["metadata"] ELSE << >>

C13_Witness ==
  /\ Completed
  /\ "response" \in DOMAIN context /\ "llm_response" \in DOMAIN context
  /\ context["response"] # context["llm_response"]
  /\ execution.result[1].response = context["response"]

\* C14: on a workflow validate_workflow accepts, the response of a completed
\* run is a string, and it is the response an outputN node contributed.
C14_ResponseIsString ==
  (Completed /\ validate_workflow(nodes, edges).valid) =>
    /\ execution.result[1].response # None
    /\ \E i \in 1..Len(dispatched) :
         /\ TypeOf(i) = "outputN"
         /\ dispatched[i].result.response = execution.result[1].response

\* The calls of the one handler, when it is that of a node of type t.
CallsOfType(t) ==
  IF nodes # << >> /\ nodes[1].component_type = t THEN 1..Len(handler_calls) ELSE {}

\* C15: a call of the knowledge base handler on documents that all have
\* embeddings calls generate_document_embeddings for none, the first call
\* and the calls after it; and it calls it for a document only if the
\* document had no embedding.
C15_EmbeddingReuse ==
  \A i \in CallsOfType("knowledgeBase") :
    LET c == handler_calls[i]
        ids == document_ids(nodes[1].config)
    IN  /\ (\A j \in 1..Len(ids) : c.documents[ids[j]].embeddings > 0)
             => c.generated = << >>
        /\ \A j \in 1..Len(c.generated) : c.documents[c.generated[j]].embeddings = 0

\* The dispatches whose similarity search failed.
RetrievalFailed(i) == TypeOf(i) = "knowledgeBase" /\ dispatched[i].outcome.retrieval = "raise"

\* The successor the traversal takes first after the i-th dispatch is, if it
\* is a node, the next node dispatched, unless the traversal has not come to
\* it yet or its own dispatch raised.
GoesOn(i) ==
  LET succ == SuccessorsOf(edges, dispatched[i].node) IN
  (succ # << >> /\ succ[1] \in NodeIds(nodes)) =>
    \/ Len(dispatched) > i /\ dispatched[i + 1].node = succ[1]
    \/ Len(dispatched) = i /\ pc = "traversing"
    \/ Len(dispatched) = i /\ error.msg \in {"Unknown component type", "TypeError",
                                            "ValueError",
                                            "maximum recursion depth exceeded"}

\* C16: the knowledge base handler raises for no configuration; when the
\* embedding capability fails it contributes an empty knowledge_context, no
\* sources and the error, and the traversal goes on to the successors.
C16_KnowledgeBaseSoftFail ==
  /\ error # Err("TypeError", "selectedDocuments")
  /\ \A i \in 1..Len(dispatched) :
       RetrievalFailed(i) =>
         /\ dispatched[i].result =
              [knowledge_context |-> "", sources |-> << >>, error |-> RetrievalErrorText]
         /\ GoesOn(i)

\* C17: the language model handler raises for no configuration and returns
\* llm_response, model_used and web_search_used; llm_response is the apology
\* when the language model raises or answers an empty or blank text; and
\* when the embedded search raises the language model is still called, with
\* a prompt that has no web line.
C17_LanguageModelNeverAborts ==
  \A i \in CallsOfType("llm") :
    LET c == handler_calls[i] IN
    /\ c.error = NoError
    /\ DOMAIN c.result = {"llm_response", "model_used", "web_search_used"}
    /\ (c.outcome.llm.kind = "raise" \/ Blank(c.outcome.llm.text))
         => c.result.llm_response = Apology
    /\ Len(llm_calls) = Len(handler_calls)
    /\ c.outcome.search = "raise" => llm_calls[i].prompts.web_lines = << >>

\* The dispatches one of whose external capabilities failed.
CapabilityFailed(i) ==
  \/ RetrievalFailed(i)
  \/ TypeOf(i) = "llm" /\ dispatched[i].outcome.llm.kind = "raise"
  \/ TypeOf(i) = "webSearch" /\ dispatched[i].outcome.search = "raise"

\* The nodes edges lead to from the entry node, the entry node included.
Reachable ==
  IF FindStart(nodes) = 0 THEN {}
  ELSE ReachFrom({nodes[FindStart(nodes)].id}, EdgeRel(nodes, edges))

\* Nothing but a capability can fail: there is an entry node, the builder
\* does not raise, and every node reached from the entry has a handler, a
\* configuration its handler does not raise on, and no path back to itself.
RunsClean ==
  /\ FindStart(nodes) # 0
  /\ ~BuildRaises(nodes, edges)
  /\ \A id \in Reachable :
       /\ nodes[id].component_type \in KnownTypes
       /\ ~HandlerRaises(nodes[id])
       /\ ~Reaches(nodes, edges, id, id)

C19_WebSearchNode ==
  \A i \in 1..Len(dispatched) :
    TypeOf(i) = "webSearch" =>
      LET r == dispatched[i].result
          search == dispatched[i].outcome.search
      IN  /\ DOMAIN r = {"web_context", "web_results"}
          /\ search = "one" => (r.web_context = WebLine /\ r.web_results = << WebResult >>)
          /\ search = "two" =>
               (r.web_context = WebLines /\ r.web_results = << WebResult, WebResult >>)
          /\ search \in {"empty", "raise"} =>
               (r.web_context = "" /\ r.web_results = << >>)
          /\ GoesOn(i)

C19_Witness ==
  /\ Completed
  /\ \E i \in 1..Len(dispatched), j \in 1..Len(dispatched) :
       /\ TypeOf(i) = "webSearch" /\ dispatched[i].outcome.search = "raise"
       /\ TypeOf(j) = "webSearch" /\ dispatched[j].outcome.search = "two"
       /\ i < j

\* C20: the output handler contributes as response the context's
\* llm_response when that is not empty once stripped, and the no-response
\* string otherwise, so never an empty text; as sources the context's
\* sources, [] when absent; as metadata the context's model_used (None when
\* absent) and web_search_used (False when absent).
C20_OutputHandler ==
  \A i \in CallsOfType("outputN") :
    LET r == handler_calls[i].result IN
    /\ handler_calls[i].error = NoError
    /\ DOMAIN r = {"response", "sources", "metadata"}
    /\ r.response =
         IF "llm_response" \in DOMAIN context /\ context["llm_response"] \notin {"", " "}
         THEN context["llm_response"]
         ELSE NoResponse
    /\ r.response \notin {"", " "}
    /\ r.sources = IF "sources" \in DOMAIN context THEN context["sources"] ELSE << >>
    /\ r.metadata =
         [model_used |->
            IF "model_used" \in DOMAIN context THEN context["model_used"] ELSE None,
          web_search_used |->
            IF "web_search_used" \in DOMAIN context THEN context["web_search_used"]
            ELSE FALSE]

C20_Witness ==
  /\ CallsOfType("outputN") # {}
  /\ "llm_response" \in DOMAIN context /\ context["llm_response"] = " "
  /\ "sources" \in DOMAIN context /\ context["sources"] # << >>
  /\ handler_calls[1].result.response = NoResponse

\* ------------------------------------------------------------ end to end
\* The one call of the language model answered a text.
OneLLMText == Len(llm_calls) = 1 /\ llm_calls[1].outcome.kind = "text"

\* C21 as stated: on userQuery -> llm -> outputN, when the language model
\* answers a text t that is not empty, the run is completed and its response
\* and llm_response are t.
C21_AsStated ==
  (Returned /\ QueryLLMOutput /\ OneLLMText /\ llm_calls[1].outcome.text # "") =>
    /\ execution.status = "completed"
    /\ execution.result[1].response = llm_calls[1].outcome.text
    /\ execution.result[1].llm_response = llm_calls[1].outcome.text

\* C21 (amended): on userQuery -> llm -> outputN, when the language model
\* answers a text t that is not empty once stripped, the run is completed and
\* its response and llm_response are t; when it answers an empty or blank
\* text, both are the apology.
C21_PassThrough ==
  (Returned /\ QueryLLMOutput /\ OneLLMText) =>
    LET t == llm_calls[1].outcome.text
        r == execution.result[1]
    IN  /\ execution.status = "completed"
        /\ t \notin {"", " "} => (r.response = t /\ r.llm_response = t)
        /\ t \in {"", " "} => (r.response = Apology /\ r.llm_response = Apology)

C21_Witness ==
  /\ Returned /\ QueryLLMOutput /\ OneLLMText
  /\ llm_calls[1].outcome.text = "t2"
  /\ llm_calls[1].prompts.web_lines # << >>
  /\ execution.result[1].response = "t2"
  /\ execution.result[1].llm_response = "t2"

\* A configuration with a selectedDocuments list that is not empty.
SelectsDocuments(config) ==
  \/ "selectedDocuments:ids" \in config
  \/ \E d \in DocIdSet : SelectionToken(d) \in config

\* The graph userQuery -> knowledgeBase -> llm -> outputN and nothing else,
\* the knowledge base with an apiKey.
QueryKBLLMOutput ==
  /\ Len(nodes) = 4 /\ Len(edges) = 3
  /\ \E q \in 1..4, k \in 1..4, l \in 1..4, o \in 1..4 :
       /\ nodes[q].component_type = "userQuery"
       /\ nodes[k].component_type = "knowledgeBase" /\ "apiKey" \in nodes[k].config
       /\ nodes[l].component_type = "llm"
       /\ nodes[o].component_type = "outputN"
       /\ EdgeRel(nodes, edges) = { << nodes[q].id, nodes[k].id >>,
                                    << nodes[k].id, nodes[l].id >>,
                                    << nodes[l].id, nodes[o].id >> }

\* The knowledge base of the graph selects documents.
KBSelectsDocuments ==
  \E k \in 1..Len(nodes) :
    nodes[k].component_type = "knowledgeBase" /\ SelectsDocuments(nodes[k].config)

\* Every similarity search of the run answered one chunk.
EverySearchOneChunk ==
  \A i \in 1..Len(dispatched) :
    TypeOf(i) = "knowledgeBase" => dispatched[i].outcome.retrieval = "one"

\* The run of the graph of C22 ended as C22 says.
RetrievalFedGeneration ==
  /\ execution.status = "completed"
  /\ Len(execution.result[1].sources) = 1
  /\ Len(llm_calls) = 1
  /\ llm_calls[1].prompts.context_prefix

\* C22: on userQuery -> knowledgeBase -> llm -> outputN with a knowledge base
\* that has an apiKey and selected documents, when the similarity search
\* answers one chunk, the run is completed, its sources are one source and the
\* prompt of the language model starts with 'Context:'; and every prompt has
\* that prefix exactly when the context the llm node was dispatched on held a
\* knowledge_context that is not empty.
C22_RetrievalFeedsGeneration ==
  [][ /\ (Returned /\ QueryKBLLMOutput /\ KBSelectsDocuments /\ EverySearchOneChunk)'
           => RetrievalFedGeneration'
      /\ llm_calls' # llm_calls =>
           (llm_calls'[Len(llm_calls')].prompts.context_prefix
              <=> ("knowledge_context" \in DOMAIN context /\ context["knowledge_context"] # ""))
    ]_vars

\* C23: for a workflow validate_workflow refuses, no WorkflowExecution row is
\* created and no node is dispatched, whichever of validate and execute is
\* called.
C23_NoRunOnInvalidGraph ==
  (workflow_exists /\ ~validate_workflow(nodes, edges).valid) =>
    /\ execution = NoExecution
    /\ dispatched = << >>

\* The number of nodes of component type t.
CountOfType(ns, t) == Cardinality({ i \in 1..Len(ns) : ns[i].component_type = t })

\* C24: a workflow validate_workflow accepts has exactly one userQuery node,
\* exactly one outputN node, at least one llm node, and no cycle.
C24_AcceptedGraphInvariant ==
  validate_workflow(nodes, edges).valid =>
    /\ CountOfType(nodes, "userQuery") = 1
    /\ CountOfType(nodes, "outputN") = 1
    /\ CountOfType(nodes, "llm") >= 1
    /\ ~AnyCycle(nodes, edges)

\* An edge from a node of the graph to itself.
SelfLoop(ns, es) ==
  \E i \in 1..Len(es) : es[i].source = es[i].target /\ es[i].source \in NodeIds(ns)

\* C25 as stated: a graph with the required components and an edge from a
\* node to itself fails with 'Workflow contains cycles'.
C25_AsStated ==
  (Validated /\ RequiredPresent(nodes) /\ SelfLoop(nodes, edges)) =>
    (~validation.valid /\ validation.error = "Workflow contains cycles")

\* C25 (amended): a graph with the required components and an edge from a
\* node to itself fails validation: with 'Workflow contains cycles' when every
\* edge joins nodes of the graph, with 'Invalid edge connection' when some
\* other edge does not.
C25_SelfLoopsRejected ==
  (Validated /\ RequiredPresent(nodes) /\ SelfLoop(nodes, edges)) =>
    /\ ~validation.valid
    /\ validation.error = IF Dangling(nodes, edges) THEN "Invalid edge connection"
                          ELSE "Workflow contains cycles"

C25_Witness ==
  /\ Validated /\ RequiredPresent(nodes)
  /\ SelfLoop(nodes, edges)
  /\ ~CycleAmongNodes(nodes, edges) /\ ~Dangling(nodes, edges)
  /\ Len(edges) = 2
  /\ validation.error = "Workflow contains cycles"

\* ------------------------------------------------------------ two calls
\* Some handler of the call of `frame` contributed the value v for key k.
OwnContribution(frame, k, v) ==
  \E i \in 1..Len(frame.dispatched) :
    k \in DOMAIN frame.dispatched[i].result /\ frame.dispatched[i].result[k] = v

\* What the call of `frame` read and wrote is its own: its context holds its
\* own query and values its own handlers contributed, its handlers read its
\* own query, and its result holds values its own handlers contributed.
Isolated(frame) ==
  /\ \A k \in DOMAIN frame.context :
       \/ k = "user_query" /\ frame.context[k] = frame.user_query
       \/ OwnContribution(frame, k, frame.context[k])
  /\ \A i \in 1..Len(frame.dispatched) :
       "query" \in DOMAIN frame.dispatched[i].result
         => frame.dispatched[i].result.query = frame.user_query
  /\ \A i \in 1..Len(frame.llm_calls) :
       frame.llm_calls[i].prompts.question = frame.user_query
  /\ frame.execution.status = "completed" =>
       LET r == frame.execution.result[1] IN
       /\ \/ r.response = None
          \/ OwnContribution(frame, "response", r.response)
          \/ OwnContribution(frame, "llm_response", r.response)
       /\ r.llm_response = None \/ OwnContribution(frame, "llm_response", r.llm_response)
       /\ r.sources = << >> \/ OwnContribution(frame, "sources", r.sources)
       /\ r.metadata = << >> \/ OwnContribution(frame, "metadata", r.metadata)

\* C26: of two execute_workflow calls that take turns where they await a
\* capability, each reads and writes its own context only, and the result of
\* each holds no value a handler of the other contributed.
C26_ContextIsolation ==
  /\ Isolated(Frame)
  /\ other.pc # "none" => Isolated(other)

C26_Witness ==
  /\ Completed
  /\ execution.result[1].response = "t1"
  /\ other.pc = "traversing"
  /\ Len(other.dispatched) >= 2
  /\ "llm_response" \in DOMAIN other.context /\ other.context["llm_response"] = "t2"
  /\ other.context["user_query"] # context["user_query"]

\* ------------------------------------------------------------------ chat
\* The run process_message awaited ended failed, or completed with a
\* degraded language-model answer.
FailedOrDegraded ==
  \/ execution.status = "failed"
  \/ /\ execution.status = "completed"
     /\ execution.result[1].llm_response = LLMErrorText

\* C27: for an existing session process_message adds one user message and
\* then one assistant message and returns a response without raising; when
\* the run ended failed or completed degraded, the assistant text it stores
\* and returns is an answer text, never a missing (None) answer.
C27_FailedLikeDegraded ==
  /\ (pc \in {"chat_returned", "chat_raised"} /\ chat.session) =>
       /\ chat.status = "answered"
       /\ Len(chat.messages) = 2
       /\ chat.messages[1] = [message_type |-> "user", content |-> user_query]
       /\ chat.messages[2].message_type = "assistant"
       /\ chat.response[1].response = chat.messages[2].content
  /\ (chat.status = "answered" /\ FailedOrDegraded) =>
       /\ chat.response[1].error = FALSE
       /\ chat.response[1].response # PyStr(None)

\* ------------------------------------------------------ validation order
\* The five rules of validation, each stated on the workflow alone.
RuleViolated(k, ns, es) ==
  CASE k = 1 -> ns = << >>
    [] k = 2 -> ~RequiredPresent(ns)
    [] k = 3 -> Dangling(ns, es)
    [] k = 4 -> AnyCycle(ns, es)
    [] k = 5 -> \E i \in 1..Len(ns) : RefusedConfig(ns[i])

ConfigErrors ==
  { "LLM Engine component missing model configuration",
    "LLM Engine component missing apiKey",
    "Knowledge Base component missing apiKey",
    "Web Search component missing apiKey" }

\* The reasons validate_workflow gives for each rule.
RuleReasons(k) ==
  CASE k = 1 -> {"Workflow must have at least one node"}
    [] k = 2 -> MissingComponentErrors
    [] k = 3 -> {"Invalid edge connection"}
    [] k = 4 -> {"Workflow contains cycles"}
    [] k = 5 -> ConfigErrors

\* The first required component type the workflow lacks, in the order
\* userQuery, outputN, llm.
FirstMissingReason(ns) ==
  IF "userQuery" \notin ComponentTypes(ns)
  THEN "Workflow must have a User Query component"
  ELSE IF "outputN" \notin ComponentTypes(ns)
  THEN "Workflow must have an Output component"
  ELSE "Workflow must have an LLM Engine component"

ViolatedRules == {k \in 1..5 : RuleViolated(k, nodes, edges)}

EarliestViolated == CHOOSE k \in ViolatedRules : \A j \in ViolatedRules : k <= j

\* C28: validate_workflow fails with the reason of the earliest violated
\* rule, in the order nodes non-empty, required components (userQuery, then
\* outputN, then llm), dangling edges, cycles, per-node configuration; it
\* succeeds when no rule is violated, and the reasons of different rules
\* are different.
C28_EarliestRuleDecides ==
  /\ \A j \in 1..5, k \in 1..5 : j # k => RuleReasons(j) \cap RuleReasons(k) = {}
  /\ Validated =>
       IF ViolatedRules = {}
       THEN validation.valid
       ELSE /\ ~validation.valid
            /\ validation.error \in RuleReasons(EarliestViolated)
            /\ EarliestViolated = 2 => validation.error = FirstMissingReason(nodes)

C28_Witness ==
  /\ Validated
  /\ {3, 4, 5} \subseteq ViolatedRules
  /\ validation.error = "Invalid edge connection"

\* ---------------------------------------------------------- graph builder
\* execute_workflow has called _build_execution_graph and it has returned.
GraphBuilt ==
  /\ pc \in {"traversing", "except", "returned"}
  /\ execution.status # "none"
  /\ ~BuildRaises(nodes, edges)

\* The positions in `es` of the edges that leave `id`.
EdgesLeaving(es, id) == {i \in 1..Len(es) : es[i].source = id}

\* C29: for a node list and an edge list whose edges reference known node
\* ids, the map _build_execution_graph returns has exactly the node ids as
\* keys, and the successors of each node are the targets of the edges that
\* leave it, one per edge, in edge order (duplicates kept, the empty
\* sequence for a node no edge leaves).
C29_BuilderResult ==
  (GraphBuilt /\ ~Dangling(nodes, edges)) =>
    /\ DOMAIN graph = NodeIds(nodes)
    /\ \A id \in NodeIds(nodes) :
         LET leaving == EdgesLeaving(edges, id) IN
         /\ Len(graph[id]) = Cardinality(leaving)
         /\ \A i \in leaving :
              graph[id][Cardinality({j \in leaving : j <= i})] = edges[i].target

C29_Witness ==
  /\ GraphBuilt
  /\ ~Dangling(nodes, edges)
  /\ \E a \in NodeIds(nodes), b \in NodeIds(nodes), c \in NodeIds(nodes) :
       /\ graph[a] = << c, b >>
       /\ b < c
       /\ graph[b] = << >>

\* C30: when an edge of the workflow names an id that is the id of no node,
\* as source or as target, _build_execution_graph fails: no graph is built,
\* no node is dispatched, and the run is recorded failed.
C30_DanglingFailsBuild ==
  (workflow_exists /\ Dangling(nodes, edges)) =>
    /\ graph = << >>
    /\ dispatched = << >>
    /\ Returned => execution.status = "failed"

\* -------------------------------------------------- unknown component type
\* The five component types of the data model.
FiveTypes == {"userQuery", "knowledgeBase", "llm", "webSearch", "outputN"}

\* The node the traversal dispatches next, 0 if it dispatches none.
NextDispatched ==
  IF pc = "traversing" /\ stack # << >>
       /\ Top.next <= Len(GraphGet(graph, nodes[Top.node].id))
       /\ Len(stack) + 1 <= RecursionLimit
  THEN FindNode(nodes, GraphGet(graph, nodes[Top.node].id)[Top.next])
  ELSE 0

UnknownTypeRaised == error.msg = "Unknown component type"

\* C31: the dispatch of a node whose type is none of the five raises the
\* unknown-component-type error naming the type, with nothing merged into
\* the context and nothing recorded as dispatched; after it no node is
\* dispatched, and the row is recorded failed with that error in its logs.
C31_UnknownComponentType ==
  [][ /\ (NextDispatched # 0
          /\ nodes[NextDispatched].component_type \notin FiveTypes) =>
           /\ pc' = "except"
           /\ error' = Err("Unknown component type", nodes[NextDispatched].component_type)
           /\ context' = context
           /\ dispatched' = dispatched
           /\ llm_calls' = llm_calls
      /\ UnknownTypeRaised =>
           /\ pc' = "returned"
           /\ execution'.status = "failed"
           /\ execution'.logs = << [error |-> error] >>
           /\ UNCHANGED << context, dispatched, llm_calls, error >>
    ]_vars

C31_Witness ==
  /\ Returned
  /\ execution.status = "failed"
  /\ execution.logs = << [error |-> Err("Unknown component type", "llm_engine")] >>
  /\ Len(dispatched) = 1
  /\ context = [user_query |-> user_query, query |-> user_query]
  /\ \E i \in 1..Len(nodes) :
       /\ nodes[i].component_type = "llm_engine"
       /\ SuccessorsOf(edges, nodes[i].id) # << >>

\* ------------------------------------------------------------- fan-out
DispatchedSet == { dispatched[i].node : i \in 1..Len(dispatched) }

\* C32: no node is dispatched that edges do not lead to from the entry
\* userQuery node; and in a run that ends completed the nodes dispatched are
\* exactly the nodes reachable from the entry, every successor of a
\* dispatched node among them.
C32_UnconditionalFanOut ==
  /\ DispatchedSet \subseteq Reachable
  /\ Completed =>
       /\ DispatchedSet = Reachable
       /\ \A i \in 1..Len(dispatched), k \in 1..Len(edges) :
            (edges[k].source = dispatched[i].node /\ edges[k].target \in NodeIds(nodes))
              => edges[k].target \in DispatchedSet

C32_Witness ==
  /\ Completed
  /\ Len(nodes) = 3
  /\ Cardinality(DispatchedSet) = 2
  /\ \E a \in NodeIds(nodes) :
       /\ a \notin Reachable
       /\ \E k \in 1..Len(edges) : edges[k].source = a /\ edges[k].target \in Reachable

\* ---------------------------------------------------- result consistency
OutputDispatches == { i \in 1..Len(dispatched) : TypeOf(i) = "outputN" }

LastOutputDispatch == CHOOSE i \in OutputDispatches : \A j \in OutputDispatches : j <= i

\* The llm_response the i-th dispatch, of an outputN node, read from the
\* context: its response, unless it found none and answered the fixed text.
ReadByOutput(i) ==
  IF dispatched[i].result.response = NoResponse THEN None
  ELSE dispatched[i].result.response

\* C33: in a completed run that dispatched an outputN node, the llm_response
\* of the result is the llm_response the last dispatched outputN node read,
\* so that response and llm_response are one language-model answer.
C33_ResultConsistency ==
  (Completed /\ OutputDispatches # {}) =>
    execution.result[1].llm_response = ReadByOutput(LastOutputDispatch)

\* -------------------------------------------------------------- the seed
\* C34: from the moment the traversal has its context, the context holds
\* the key user_query with the query execute_workflow was called with, and
\* no dispatch contributes the key user_query.
C34_SeedNeverOverwritten ==
  /\ (pc = "traversing" \/ context # << >>) =>
       /\ "user_query" \in DOMAIN context
       /\ context["user_query"] = user_query
  /\ \A i \in 1..Len(dispatched) : "user_query" \notin DOMAIN dispatched[i].result
  /\ \A i \in 1..Len(llm_calls) : llm_calls[i].prompts.question = user_query

C34_Witness ==
  /\ Completed
  /\ Len(dispatched) = 3
  /\ {"query", "llm_response", "response", "sources", "metadata"} \subseteq DOMAIN context
  /\ context["user_query"] = user_query
  /\ context["query"] = user_query

\* --------------------------------------------------------------- joins
RECURSIVE PathsFrom(_, _)
RECURSIVE PathsVia(_, _, _)
\* The number of edge paths from node a to node id, parallel edges counted
\* apart; defined where no cycle is reached from a.
PathsFrom(a, id) == IF a = id THEN 1 ELSE PathsVia(a, id, 1)

\* The paths from a to id whose first edge is the k-th edge or a later one.
PathsVia(a, id, k) ==
  IF k > Len(edges) THEN 0
  ELSE (IF edges[k].source = a /\ edges[k].target \in NodeIds(nodes)
        THEN PathsFrom(edges[k].target, id) ELSE 0)
       + PathsVia(a, id, k + 1)

DispatchCount(id) == Cardinality({ i \in 1..Len(dispatched) : dispatched[i].node = id })

\* C35 as stated: in every run over a graph without cycles each node is
\* dispatched once for every edge path from the entry node to it.
C35_AsStated ==
  (Returned /\ FindStart(nodes) # 0 /\ ~AnyCycle(nodes, edges)) =>
    \A id \in NodeIds(nodes) :
      DispatchCount(id) = PathsFrom(nodes[FindStart(nodes)].id, id)

\* C35 (amended): in a completed run (no cycle is reached from its entry)
\* each node is dispatched once for every edge path from the entry node to
\* it, and the language model is called once for every dispatch of an llm
\* node.
C35_DispatchCountOnJoins ==
  Completed =>
    /\ \A id \in NodeIds(nodes) :
         DispatchCount(id) = PathsFrom(nodes[FindStart(nodes)].id, id)
    /\ Len(llm_calls) =
         Cardinality({ i \in 1..Len(dispatched) : TypeOf(i) = "llm" })

C35_Witness ==
  /\ Completed
  /\ \E id \in NodeIds(nodes) :
       /\ nodes[id].component_type = "llm"
       /\ DispatchCount(id) = 2
       /\ Len(llm_calls) = 2
       /\ \E j \in 1..Len(edges), k \in 1..Len(edges) :
            /\ edges[j].target = id /\ edges[k].target = id
            /\ edges[j].source # edges[k].source

\* ---------------------------------------------------------- termination
\* The paths of a graph without cycles are sets of its edges.
DispatchBound == 2 ^ Len(edges)

\* C36: on a workflow validate_workflow accepts, whatever the capabilities
\* answer, a call of execute_workflow that has created its row running
\* comes to record it completed or failed and to return it; the
\* traversal dispatches a bounded number of nodes.
C36_Termination ==
  /\ [](Len(dispatched) <= DispatchBound)
  /\ (execution.status = "running")
        ~> (Returned /\ execution.status \in {"completed", "failed"})

C36_Witness ==
  /\ Returned
  /\ execution.status = "completed"
  /\ Len(dispatched) > Len(nodes)
  /\ Len(llm_calls) >= 2

\* ------------------------------------------------ embedding generation
\* Call c waits for the embeddings API on the document d.
GeneratingFor(c, d) ==
  /\ kb_calls[c].pc = "awaiting"
  /\ kb_calls[c].missing[kb_calls[c].next] = d

CountIn(seq, d) == Cardinality({ i \in DOMAIN seq : seq[i] = d })

\* C37: of two knowledge base calls that take turns at their awaits, at
\* most one generates the embeddings of a document at a time, a document is
\* generated at most once by the two together, and at most once by one
\* call even when its id is listed twice.
C37_NoDuplicateGeneration ==
  \A d \in DocIdSet :
    /\ Cardinality({ c \in DOMAIN kb_calls : GeneratingFor(c, d) }) <= 1
    /\ \A c \in DOMAIN kb_calls : CountIn(kb_calls[c].started, d) <= 1
    /\ Cardinality({ << c, i >> \in (DOMAIN kb_calls) \X (1..MaxSelected) :
                       /\ i \in DOMAIN kb_calls[c].generated
                       /\ kb_calls[c].generated[i] = d }) <= 1

\* ------------------------------- one workflow run twice, one after another
\* A first run, kept in `other` when it has returned, then a second run of
\* the same workflow on the same query and the same store, in which every
\* capability answers what it answered in the first run, but for the
\* search of the webSearch nodes, which answers anything.
\* The outcome o of the next dispatch, of the node n, is the outcome of the
\* same dispatch of the first run, the search of a webSearch node apart.
SameButWebSearch(n, o) ==
  LET k == Len(dispatched) + 1 IN
  k <= Len(other.dispatched) =>
    IF nodes[n].component_type = "webSearch"
    THEN o = [other.dispatched[k].outcome EXCEPT !.search = o.search]
    ELSE o = other.dispatched[k].outcome

\* Descend, in the first run.
FirstDescend == other.pc = "none" /\ Descend

\* Descend, in the second run.
SecondDescend ==
  /\ other.pc = "returned"
  /\ pc = "traversing"
  /\ stack # << >>
  /\ Top.next <= Len(GraphGet(graph, nodes[Top.node].id))
  /\ LET n == FindNode(nodes, GraphGet(graph, nodes[Top.node].id)[Top.next]) IN
     /\ n # 0
     /\ \E o \in OutcomesFor(nodes[n]) :
          SameButWebSearch(n, o) /\ Dispatch(n, context, o)
  /\ UNCHANGED caller_vars
  /\ UNCHANGED << workflow_exists, nodes, edges, user_query, validation, execution,
                  graph, handler_calls >>

\* The first run has returned: execute_workflow is called again.
RunAgain ==
  /\ pc = "returned"
  /\ other.pc = "none"
  /\ other' = Frame
  /\ pc' = "idle"
  /\ execution' = NoExecution
  /\ graph' = << >>
  /\ context' = << >>
  /\ stack' = << >>
  /\ error' = NoError
  /\ dispatched' = << >>
  /\ llm_calls' = << >>
  /\ documents' = NoDocuments
  /\ UNCHANGED << workflow_exists, nodes, edges, user_query, validation,
                  handler_calls, chat, kb_calls >>

\* The workflows validate_workflow accepts in which edges lead from the
\* entry node to a webSearch node.
InitTwoRuns ==
  /\ InitAccepted
  /\ \E id \in Reachable : nodes[id].component_type = "webSearch"

NextTwoRuns ==
  \/ ExecuteStart
  \/ ExecuteLogic
  \/ FirstDescend
  \/ SecondDescend
  \/ Return
  \/ ExecuteComplete
  \/ ExecuteExcept
  \/ RunAgain

SpecTwoRuns == InitTwoRuns /\ [][NextTwoRuns]_vars

\* ------------------------------------------------- webSearch and generation
BothReturned == Returned /\ other.pc = "returned"

\* C38: two runs of one workflow on one query in which every capability
\* answers the same, but for the search of the webSearch nodes, hand the
\* same prompts to the language model, end in the same status, and have
\* the same response, llm_response, sources and metadata in their results.
C38_WebSearchNodeNoInfluence ==
  BothReturned =>
    /\ Len(llm_calls) = Len(other.llm_calls)
    /\ \A i \in 1..Len(llm_calls) : llm_calls[i].prompts = other.llm_calls[i].prompts
    /\ execution.status = other.execution.status
    /\ execution.result = other.execution.result

C38_Witness ==
  /\ BothReturned
  /\ Completed
  /\ Len(llm_calls) >= 1
  /\ \E k \in 1..Len(dispatched) :
       /\ TypeOf(k) = "webSearch"
       /\ dispatched[k].result.web_context # other.dispatched[k].result.web_context
       /\ \E j \in (k + 1)..Len(dispatched) : TypeOf(j) = "llm"
  /\ \E j \in 1..Len(dispatched) : TypeOf(j) = "outputN"

=============================================================================
